---- MODULE Spec2Model ----
(***************************************************************************)
(* Model of the Divvy trip pipeline: DataCleaner (src/data/clean_data.py), *)
(* TemporalFeatureExtractor (src/features/temporal_features.py),           *)
(* UnitEconomicsModel (src/models/unit_economics.py) and the dataset       *)
(* loaders load_dataset / lazy_load_dataset (src/data/data_manager.py).    *)
(*                                                                         *)
(* A DataFrame is a record [columns, dtype, rows]: columns is the sequence *)
(* of the column names in their order, dtype maps every column name to     *)
(* its polars dtype ("datetime", "str", "float", "int"), rows is the       *)
(* sequence of rows, each row a function from the column names to cells.   *)
(* A cell is a record [k, n, s]: k is "null" or the kind of the value, n   *)
(* its numeric payload, s its string payload.                              *)
(*   datetime cells: n = seconds since 2024-06-15 08:00:00                 *)
(*   duration cells (float): n = minutes * 60 (the code divides the whole  *)
(*                   seconds by 60.0, so every value is a multiple of 1/60)*)
(*   coordinate cells (float): n = degrees * 10                            *)
(*   date cells: n = days since 1970-01-01; boolean cells: n = 0 or 1      *)
(*   integer feature cells: n = the value after the wrap-around of the    *)
(*                   column's width ("int8", "int16", "int32", "int64")    *)
(*   cyclical and rolling cells (float): n and s name the real number,    *)
(*                   e.g. s = "sin/24" is sin(2 pi n / 24), s = "/7" is n/7*)
(* Prices and metrics are doubles [sign, mant, exp], see below.            *)
(***************************************************************************)
EXTENDS Integers, Sequences, FiniteSets, Bags, TLC

\* ---------------------------------------------------------------- bounds
MaxRows == 2
MaxRuns == 2

\* ------------------------------------------------------------- constants
\* chicago_bounds, in tenths of a degree
lat_min == 415
lat_max == 425
lng_min == -880
lng_max == -870
\* duration_limits, in minutes
duration_min == 1
duration_max == 1440
\* the divisor of total_seconds() in _clean_duration
SecondsPerMinute == 60

\* ----------------------------------------------------------------- cells
Null == [k |-> "null", n |-> 0, s |-> ""]
Str(s) == [k |-> "str", n |-> 0, s |-> s]
Dt(t) == [k |-> "datetime", n |-> t, s |-> ""]
Flt(x) == [k |-> "float", n |-> x, s |-> ""]
Int64(x) == [k |-> "int", n |-> x, s |-> ""]

IsNull(c) == c.k = "null"

\* -------------------------------------------------------------- outcomes
\* The outcome of a call: raised = "" when it returned, else the exception;
\* stage = the stage that raised.
Ok(df) == [raised |-> "", stage |-> "", df |-> df]
Raise(exc, stage, df) == [raised |-> exc, stage |-> stage, df |-> df]

\* --------------------------------------------------- natural numbers
\* The integers of TLC have 32 bits; the significand of a double has 53 and
\* a product of two has 106.  A natural number of any size is the sequence
\* of its digits in base 2^15, the lowest digit first and the highest digit
\* not 0; zero is << >>.
Base == 2 ^ 15

\* the number of bits of a digit; a digit has BaseBits of them
RECURSIVE BitLen(_)
BitLen(n) == IF n = 0 THEN 0 ELSE 1 + BitLen(n \div 2)
BaseBits == BitLen(Base) - 1

Max(a, b) == IF a >= b THEN a ELSE b
Min(a, b) == IF a <= b THEN a ELSE b

RECURSIVE BigTrim(_)
BigTrim(a) ==
  IF a # << >> /\ a[Len(a)] = 0 THEN BigTrim(SubSeq(a, 1, Len(a) - 1)) ELSE a

\* the digits of n >= 0
RECURSIVE BigOfInt(_)
BigOfInt(n) == IF n = 0 THEN << >> ELSE << n % Base >> \o BigOfInt(n \div Base)

Limb(a, i) == IF i <= Len(a) THEN a[i] ELSE 0

\* the digits r.d with the carry r.c as the highest digit
WithCarry(r) == IF r.c = 0 THEN r.d ELSE Append(r.d, r.c)

\* the digit x % Base after the digits of p, the rest carried
PutDigit(p, x) == [d |-> Append(p.d, x % Base), c |-> x \div Base]

\* the sum of the digit i of a, the digit i of b and the carry of p
AddDigit(p, a, b, i) == PutDigit(p, Limb(a, i) + Limb(b, i) + p.c)

BigAddDigits(a, b, n) ==
  LET F[i \in 0..n] ==
        IF i = 0 THEN [d |-> << >>, c |-> 0] ELSE AddDigit(F[i - 1], a, b, i)
  IN  F[n]

\* a + b
BigAdd(a, b) == WithCarry(BigAddDigits(a, b, Max(Len(a), Len(b))))

\* the digit x of a difference after the digits of p: a borrow when x < 0
PutBorrow(p, x) == [d |-> Append(p.d, x % Base), c |-> IF x < 0 THEN 1 ELSE 0]

SubDigit(p, a, b, i) == PutBorrow(p, a[i] - Limb(b, i) - p.c)

\* a - b for a >= b
BigSub(a, b) ==
  LET F[i \in 0..Len(a)] ==
        IF i = 0 THEN [d |-> << >>, c |-> 0] ELSE SubDigit(F[i - 1], a, b, i)
  IN  BigTrim(F[Len(a)].d)

\* the highest place where a and b of one length differ, 0 when a = b
RECURSIVE TopDifference(_, _, _)
TopDifference(a, b, i) ==
  IF i = 0 \/ a[i] # b[i] THEN i ELSE TopDifference(a, b, i - 1)

BigCmpAt(a, b, top) == IF top = 0 THEN 0 ELSE IF a[top] < b[top] THEN -1 ELSE 1

\* -1, 0 or 1 as a < b, a = b or a > b
BigCmp(a, b) ==
  IF Len(a) # Len(b) THEN (IF Len(a) < Len(b) THEN -1 ELSE 1)
  ELSE BigCmpAt(a, b, TopDifference(a, b, Len(a)))

ScaleDigit(p, a, m, i) == PutDigit(p, a[i] * m + p.c)

BigScaleDigits(a, m) ==
  LET F[i \in 0..Len(a)] ==
        IF i = 0 THEN [d |-> << >>, c |-> 0] ELSE ScaleDigit(F[i - 1], a, m, i)
  IN  F[Len(a)]

\* a * m for a digit m
BigScale(a, m) == IF m = 0 THEN << >> ELSE WithCarry(BigScaleDigits(a, m))

\* a * Base^q
BigShiftLimbs(a, q) == IF a = << >> THEN << >> ELSE [i \in 1..q |-> 0] \o a

\* a * b
BigMul(a, b) ==
  LET F[j \in 0..Len(b)] ==
        IF j = 0 THEN << >>
        ELSE BigAdd(F[j - 1], BigShiftLimbs(BigScale(a, b[j]), j - 1))
  IN  F[Len(b)]

\* the digit x \div m before the digits of p, the rest kept
PutQuotient(p, x, m) == [q |-> << x \div m >> \o p.q, r |-> x % m]

DivDigit(p, a, m, i) == PutQuotient(p, p.r * Base + a[Len(a) - i + 1], m)

BigDivDigits(a, m) ==
  LET F[i \in 0..Len(a)] ==
        IF i = 0 THEN [q |-> << >>, r |-> 0] ELSE DivDigit(F[i - 1], a, m, i)
  IN  F[Len(a)]

SmallQuotient(out) == [q |-> BigTrim(out.q), r |-> BigOfInt(out.r)]

\* the quotient and the remainder of a by a digit m > 0
BigDivSmall(a, m) == SmallQuotient(BigDivDigits(a, m))

\* a * 2^k and the whole part of a / 2^k
BigShl(a, k) == BigShiftLimbs(BigScale(a, 2 ^ (k % BaseBits)), k \div BaseBits)
BigShr(a, k) ==
  IF k \div BaseBits >= Len(a) THEN << >>
  ELSE BigDivSmall(SubSeq(a, (k \div BaseBits) + 1, Len(a)), 2 ^ (k % BaseBits)).q

\* the number of bits of a
BigBitLen(a) ==
  IF a = << >> THEN 0 ELSE BaseBits * (Len(a) - 1) + BitLen(a[Len(a)])

\* the number of zero bits at the low end of a > 0
RECURSIVE TrailingZeros(_)
TrailingZeros(n) == IF n % 2 = 1 THEN 0 ELSE 1 + TrailingZeros(n \div 2)
LowestDigit(a, i) == BaseBits * (i - 1) + TrailingZeros(a[i])
BigTrailingZeros(a) ==
  LowestDigit(a, CHOOSE i \in 1..Len(a) : a[i] # 0 /\ \A j \in 1..i - 1 : a[j] = 0)

\* the largest digit d with d * b <= r, for r < Base * b: its bits are
\* settled from the highest down; low holds the bits above bit k
\* the digit low with the bit k - 1 set when b times it still fits in r
FittingDigit(r, b, low, high) == IF BigCmp(BigScale(b, high), r) <= 0 THEN high ELSE low

RECURSIVE QuotientDigitFrom(_, _, _, _)
QuotientDigitFrom(r, b, low, k) ==
  IF k = 0 THEN low
  ELSE QuotientDigitFrom(r, b, FittingDigit(r, b, low, low + 2 ^ (k - 1)), k - 1)

QuotientDigit(r, b) == QuotientDigitFrom(r, b, 0, BaseBits)

\* one step of the long division by b: the digit d of the quotient goes
\* before the digits of p and leaves the remainder r - d * b
PutLongQuotient(p, r, b, d) == [q |-> << d >> \o p.q, r |-> BigSub(r, BigScale(b, d))]

DivideRemainder(p, r, b) == PutLongQuotient(p, r, b, QuotientDigit(r, b))

\* the digit x is brought down to the remainder of p
LongDivDigit(p, x, b) == DivideRemainder(p, BigTrim(<< x >> \o p.r), b)

BigDivLong(a, b) ==
  LET F[i \in 0..Len(a)] ==
        IF i = 0 THEN [q |-> << >>, r |-> << >>]
        ELSE LongDivDigit(F[i - 1], a[Len(a) - i + 1], b)
  IN  F[Len(a)]

LongQuotient(out) == [q |-> BigTrim(out.q), r |-> out.r]

\* the quotient and the remainder of a by b > 0: by the digit b when it is
\* one, else digit by digit from the highest digit of a
BigDivMod(a, b) ==
  IF Len(b) = 1 THEN BigDivSmall(a, b[1]) ELSE LongQuotient(BigDivLong(a, b))

\* ------------------------------------------------- binary floating point
\* A Python float and a polars Float64 are IEEE 754 doubles.  A double is
\* the record [sign, mant, exp] of the number sign * mant * 2^exp with sign
\* 1 or -1 and a significand mant of exactly 53 bits; zero has mant << >>
\* and exp 0.  Every operation gives the double nearest to the exact
\* result, the one with the even significand when two are as near.  The
\* numbers of the model stay inside the range of the normal doubles.
Precision == 53

Double(sign, mant, exp) == [sign |-> sign, mant |-> mant, exp |-> exp]
Zero(sign) == Double(sign, << >>, 0)
IsZero(a) == a.mant = << >>

\* half is -1, 0 or 1 as the part that is cut off is below, at or above one
\* half of the last place kept: round up above it and, at it, to the even q
rounds_up(half, q, sticky) == half > 0 \/ (half = 0 /\ (sticky \/ q[1] % 2 = 1))

\* the double of the significand m of 53 or 54 bits
float_pack(sign, m, e) ==
  IF BigBitLen(m) > Precision THEN Double(sign, BigShr(m, 1), e + 1)
  ELSE Double(sign, m, e)

\* n has k bits too many and q holds its 53 high bits
float_round_to(sign, n, e, sticky, k, q) ==
  float_pack(sign,
             IF rounds_up(BigCmp(BigSub(n, BigShl(q, k)), BigShl(<< 1 >>, k - 1)), q, sticky)
             THEN BigAdd(q, << 1 >>) ELSE q,
             e + k)

\* n has k bits more than a significand
float_round_by(sign, n, e, sticky, k) ==
  IF k <= 0 THEN Double(sign, BigShl(n, -k), e + k)
  ELSE float_round_to(sign, n, e, sticky, k, BigShr(n, k))

\* the double nearest to sign * (n + f) * 2^e, where the fraction f is 0, or
\* lies strictly between 0 and 1 when sticky
float_round(sign, n, e, sticky) ==
  IF n = << >> THEN Zero(sign)
  ELSE float_round_by(sign, n, e, sticky, BigBitLen(n) - Precision)

\* float(n) of an integer n
float(n) == float_round(IF n < 0 THEN -1 ELSE 1, BigOfInt(IF n < 0 THEN -n ELSE n), 0, FALSE)

\* -a
float_neg(a) == [a EXCEPT !.sign = -a.sign]

\* the sum of sa * x * 2^e and sb * y * 2^e, where c compares x with y
float_add_signed(sa, sb, x, y, e, c) ==
  IF sa # sb /\ c = 0 THEN Zero(1)
  ELSE float_round(IF sa = sb \/ c > 0 THEN sa ELSE sb,
                   IF sa = sb THEN BigAdd(x, y)
                   ELSE IF c > 0 THEN BigSub(x, y) ELSE BigSub(y, x),
                   e, FALSE)

float_add_aligned(sa, sb, x, y, e) == float_add_signed(sa, sb, x, y, e, BigCmp(x, y))

\* a + b for a and b other than zero, both written with the exponent e
float_add_at(a, b, e) ==
  float_add_aligned(a.sign, b.sign, BigShl(a.mant, a.exp - e), BigShl(b.mant, b.exp - e), e)

\* a + b
float_add(a, b) ==
  IF IsZero(a) /\ IsZero(b) THEN Zero(IF a.sign = -1 /\ b.sign = -1 THEN -1 ELSE 1)
  ELSE IF IsZero(a) THEN b
  ELSE IF IsZero(b) THEN a
  ELSE float_add_at(a, b, Min(a.exp, b.exp))

\* a - b
float_sub(a, b) == float_add(a, float_neg(b))

\* a * b
float_mul(a, b) ==
  float_round(a.sign * b.sign, BigMul(a.mant, b.mant), a.exp + b.exp, FALSE)

\* the double of the quotient d.q with the remainder d.r, at the exponent e
float_quotient(sign, d, e) == float_round(sign, d.q, e, d.r # << >>)

\* mant * 2^e / divisor: mant is shifted by s bits so that the quotient has
\* 55 bits or more
float_div_shifted(sign, mant, divisor, e, s) ==
  float_quotient(sign, BigDivMod(BigShl(mant, s), divisor), e - s)

float_div_odd(sign, mant, divisor, e) ==
  float_div_shifted(sign, mant, divisor, e, BigBitLen(divisor) + 3)

\* a / b where the significand of b has t low zero bits
float_div_stripped(a, b, t) ==
  float_div_odd(a.sign * b.sign, a.mant, BigShr(b.mant, t), a.exp - b.exp - t)

\* a / b for b # 0: the significand of b without its low zero bits divides
\* the significand of a
float_truediv(a, b) ==
  IF IsZero(a) THEN Zero(a.sign * b.sign)
  ELSE float_div_stripped(a, b, BigTrailingZeros(b.mant))

\* -1, 0 or 1 as a < b, a == b or a > b
float_cmp(a, b) ==
  LET sa == IF IsZero(a) THEN 0 ELSE a.sign
      sb == IF IsZero(b) THEN 0 ELSE b.sign
  IN  IF sa # sb THEN (IF sa < sb THEN -1 ELSE 1)
      ELSE IF sa = 0 THEN 0
      ELSE IF a.exp # b.exp THEN (IF a.exp < b.exp THEN -sa ELSE sa)
      ELSE sa * BigCmp(a.mant, b.mant)

float_le(a, b) == float_cmp(a, b) <= 0
float_eq(a, b) == float_cmp(a, b) = 0

\* the float of the decimal literal n / d, d a power of ten: the double
\* nearest to the fraction
float_literal(n, d) == float_truediv(float(n), float(d))

\* sum() of a column of floats: the values are added one by one from 0.0
float_sum(seq) ==
  LET F[i \in 0..Len(seq)] ==
        IF i = 0 THEN Zero(1) ELSE float_add(F[i - 1], seq[i])
  IN  F[Len(seq)]
\* ------------------------------------------------------------ data frame
\* pl.DataFrame: columns holds df.columns, the names in their order
DataFrame(names, dtype, rows) ==
  [columns |-> names, dtype |-> dtype, rows |-> rows]

columns(df) == DOMAIN df.dtype
columns_list(df) == df.columns
height(df) == Len(df.rows)

\* the rows of the index set S, in their order
SelectRows(rows, S) ==
  LET F[i \in 0..Len(rows)] ==
        IF i = 0 THEN << >>
        ELSE IF i \in S THEN Append(F[i - 1], rows[i]) ELSE F[i - 1]
  IN  F[Len(rows)]

\* df.filter(mask): mask is the set of the row numbers where the predicate
\* is true (a null predicate drops the row)
filter(df, mask) == [df EXCEPT !.rows = SelectRows(@, mask)]

\* df.with_columns(series.alias(col)): col is replaced where it stands or
\* appended; series holds the new cell of every row
with_column(df, col, dtype, series) ==
  [columns |-> IF col \in columns(df) THEN df.columns ELSE Append(df.columns, col),
   dtype |-> [c \in columns(df) \cup {col} |->
                 IF c = col THEN dtype ELSE df.dtype[c]],
   rows |-> [i \in 1..Len(df.rows) |->
               [c \in columns(df) \cup {col} |->
                  IF c = col THEN series[i] ELSE df.rows[i][c]]]]


\* keyword in col.lower(), over the column names of the model; for the keyword
\* "electric", 'electric' in bike_type.lower() over the bike types of the
\* inputs
NameContains(col, keyword) ==
  CASE keyword = "started_at" -> col = "started_at"
    [] keyword = "ended_at" -> col = "ended_at"
    [] keyword = "start_time" -> FALSE
    [] keyword = "end_time" -> FALSE
    [] keyword = "lat" -> col \in {"start_lat", "end_lat"}
    [] keyword = "lng" -> col \in {"start_lng", "end_lng"}
    [] keyword = "lon" -> col = "is_long_trip"
    [] keyword = "duration" -> col \in {"trip_duration", "duration_minutes",
                                        "duration_seconds", "duration_category"}
    [] keyword = "trip_duration" -> col = "trip_duration"
    [] keyword = "station_id" -> col \in {"start_station_id", "end_station_id"}
    [] keyword = "station" -> col \in {"start_station_name", "start_station_id",
                                       "end_station_name", "end_station_id"}
    [] keyword = "name" -> col \in {"start_station_name", "end_station_name"}
    [] keyword = "id" -> col \in {"ride_id", "rideable_type",
                                  "start_station_id", "end_station_id",
                                  "is_holiday"}
    [] keyword = "electric" -> col \in {"electric_bike", "electric_scooter", "electric"}

\* ------------------------------------------------------- string handling
\* str.to_datetime() of the timestamp texts of the model; a text outside
\* the table does not parse.
ParseTable ==
  [s \in {"2024-06-15 07:59:00", "2024-06-15 08:00:00", "2024-06-15 08:01:00",
          "2024-06-15 08:10:00"} |->
     CASE s = "2024-06-15 07:59:00" -> -60
       [] s = "2024-06-15 08:00:00" -> 0
       [] s = "2024-06-15 08:01:00" -> 60
       [] s = "2024-06-15 08:10:00" -> 600]

\* lexicographic rank of the texts of the timestamp columns ("n/a" sorts
\* after every text that starts with a digit)
LexRank ==
  [s \in (DOMAIN ParseTable) \cup {"n/a"} |->
     IF s = "n/a" THEN 1000000 ELSE ParseTable[s]]

\* str.to_lowercase()
to_lowercase(s) ==
  CASE s = "Member" -> "member"
    [] s = "MEMBER" -> "member"
    [] s = "Casual" -> "casual"
    [] s = "Electric_Bike" -> "electric_bike"
    [] s = "Classic_Bike" -> "classic_bike"
    [] s = "ELECTRIC" -> "electric"
    [] OTHER -> s

\* cast(pl.Utf8) of an integer station id
int_to_str(x) ==
  CASE x = 13022 -> "13022"
    [] x = 620 -> "620"
    [] OTHER -> "0"

\* ------------------------------------------------------------ DataCleaner
\* The index sets DataFrame.unique may retain: keep = 'any' retains one row,
\* whichever, of every group of rows with the same key.
KeepChoices(rows, subset) ==
  { S \in SUBSET (1..Len(rows)) :
      \A i \in 1..Len(rows) :
        Cardinality({ j \in S : \A c \in subset : rows[j][c] = rows[i][c] }) = 1 }

\* the orders a sequence of rows may be returned in
Reordered(rows) ==
  { [i \in 1..Len(rows) |-> rows[o[i]]] : o \in Permutations(1..Len(rows)) }

\* df.unique(subset = ...): the frames it may return; df.unique() compares
\* all the columns.  maintain_order is not asked for, so the rows that are
\* kept may come in any order.
unique(df, subset) ==
  { [df EXCEPT !.rows = rows] :
      rows \in UNION { Reordered(SelectRows(df.rows, S)) :
                         S \in KeepChoices(df.rows, subset) } }

\* remove_duplicates without the pass over ride_id
remove_duplicates_full_rows_only(df) == unique(df, columns(df))

remove_duplicates(df) ==
  LET full == unique(df, columns(df))
  IN  IF "ride_id" \in columns(df)
      THEN UNION { unique(d, {"ride_id"}) : d \in full }
      ELSE full

\* col.str.to_datetime() succeeds on a text column all of whose non-null
\* values parse; any exception is swallowed by the bare except
can_parse(df, col) ==
  /\ df.dtype[col] = "str"
  /\ \A i \in 1..Len(df.rows) :
       IsNull(df.rows[i][col]) \/ df.rows[i][col].s \in DOMAIN ParseTable

to_datetime(c) == IF IsNull(c) THEN Null ELSE Dt(ParseTable[c.s])

convert_timestamp(df, col) ==
  IF df.dtype[col] # "datetime" /\ can_parse(df, col)
  THEN with_column(df, col, "datetime",
                   [i \in 1..height(df) |-> to_datetime(df.rows[i][col])])
  ELSE df

time_cols(df) ==
  SelectSeq(columns_list(df),
            LAMBDA c : \E kw \in {"started_at", "ended_at", "start_time", "end_time"} :
                         NameContains(c, kw))

RECURSIVE convert_all(_, _)
convert_all(df, cols) ==
  IF cols = << >> THEN df
  ELSE convert_all(convert_timestamp(df, Head(cols)), Tail(cols))

\* a > b on two cells of one dtype; a null operand gives null, which filter drops
cell_gt(a, b) ==
  /\ ~IsNull(a)
  /\ ~IsNull(b)
  /\ IF a.k = "str" THEN LexRank[a.s] > LexRank[b.s] ELSE a.n > b.n

cell_le(a, b) ==
  /\ ~IsNull(a)
  /\ ~IsNull(b)
  /\ IF a.k = "str" THEN LexRank[a.s] <= LexRank[b.s] ELSE a.n <= b.n

\* polars refuses to compare a temporal column with a text column
comparable(df, a, b) == df.dtype[a] = df.dtype[b]

clean_timestamps(df) ==
  IF time_cols(df) = << >> THEN Ok(df)
  ELSE LET df_clean == convert_all(df, time_cols(df))
       IN  IF "started_at" \in columns(df_clean) /\ "ended_at" \in columns(df_clean)
           THEN IF comparable(df_clean, "ended_at", "started_at")
                THEN Ok(filter(df_clean,
                               { i \in 1..height(df_clean) :
                                   cell_gt(df_clean.rows[i]["ended_at"],
                                           df_clean.rows[i]["started_at"]) }))
                ELSE Raise("InvalidOperationError", "clean_timestamps", df)
           ELSE Ok(df_clean)

\* pl.col(c).is_between(lo, hi): both ends included, null for a null cell
is_between(c, lo, hi) == ~IsNull(c) /\ lo <= c.n /\ c.n <= hi

lat_cols(df) == { c \in columns(df) : NameContains(c, "lat") }
lng_cols(df) == { c \in columns(df) : NameContains(c, "lng") \/ NameContains(c, "lon") }

filter_geographic_outliers(df) ==
  IF lat_cols(df) = {} \/ lng_cols(df) = {} THEN Ok(df)
  ELSE Ok(filter(df, { i \in 1..height(df) :
            /\ \A c \in lat_cols(df) : is_between(df.rows[i][c], lat_min, lat_max)
            /\ \A c \in lng_cols(df) : is_between(df.rows[i][c], lng_min, lng_max) }))

\* the first column of df.columns whose name contains 'duration'
duration_cols(df) ==
  SelectSeq(columns_list(df),
            LAMBDA c : NameContains(c, "duration") \/ NameContains(c, "trip_duration"))

\* (ended_at - started_at).dt.total_seconds() / 60.0
derived_duration(r) ==
  IF IsNull(r["ended_at"]) \/ IsNull(r["started_at"]) THEN Null
  ELSE Flt(r["ended_at"].n - r["started_at"].n)

\* duration_filter with the lower limit excluded
duration_filter_exclusive(df, col) ==
  filter(df, { i \in 1..height(df) :
                 /\ is_between(df.rows[i][col], duration_min * SecondsPerMinute,
                               duration_max * SecondsPerMinute)
                 /\ df.rows[i][col].n # duration_min * SecondsPerMinute })

duration_filter(df, col) ==
  filter(df, { i \in 1..height(df) :
                 is_between(df.rows[i][col], duration_min * SecondsPerMinute,
                            duration_max * SecondsPerMinute) })

clean_duration(df) ==
  IF duration_cols(df) # << >> THEN Ok(duration_filter(df, Head(duration_cols(df))))
  ELSE IF "started_at" \in columns(df) /\ "ended_at" \in columns(df)
       THEN IF df.dtype["started_at"] = "datetime" /\ df.dtype["ended_at"] = "datetime"
            THEN Ok(duration_filter(
                      with_column(df, "duration_minutes", "float",
                                  [i \in 1..height(df) |-> derived_duration(df.rows[i])]),
                      "duration_minutes"))
            ELSE Raise("InvalidOperationError", "clean_duration", df)
       ELSE Ok(df)

lower_cell(c) == IF IsNull(c) THEN Null ELSE Str(to_lowercase(c.s))
utf8_cell(c) ==
  IF IsNull(c) THEN Null ELSE IF c.k = "int" THEN Str(int_to_str(c.n)) ELSE c

RECURSIVE cast_station_ids(_, _)
cast_station_ids(df, cols) ==
  IF cols = << >> THEN df
  ELSE cast_station_ids(
         IF NameContains(Head(cols), "station_id")
         THEN with_column(df, Head(cols), "str",
                          [i \in 1..height(df) |-> utf8_cell(df.rows[i][Head(cols)])])
         ELSE df,
         Tail(cols))

standardize_data_types(df) ==
  LET d1 == IF "member_casual" \in columns(df)
            THEN with_column(df, "member_casual", "str",
                             [i \in 1..height(df) |->
                                lower_cell(df.rows[i]["member_casual"])])
            ELSE df
      d2 == IF "rideable_type" \in columns(df)
            THEN with_column(d1, "rideable_type", "str",
                             [i \in 1..height(d1) |->
                                lower_cell(d1.rows[i]["rideable_type"])])
            ELSE d1
  IN  Ok(cast_station_ids(d2, columns_list(df)))

fill_null(c, value) == IF IsNull(c) THEN Str(value) ELSE c

RECURSIVE fill_stations(_, _)
fill_stations(df, cols) ==
  IF cols = << >> THEN df
  ELSE LET col == Head(cols)
       IN  fill_stations(
             IF NameContains(col, "name")
             THEN with_column(df, col, df.dtype[col],
                              [i \in 1..height(df) |->
                                 fill_null(df.rows[i][col], "Non-Station Parking")])
             ELSE IF NameContains(col, "id")
             THEN with_column(df, col, df.dtype[col],
                              [i \in 1..height(df) |->
                                 fill_null(df.rows[i][col], "unknown")])
             ELSE df,
             Tail(cols))

station_cols(df) == SelectSeq(columns_list(df), LAMBDA c : NameContains(c, "station"))

handle_missing_stations(df) ==
  IF station_cols(df) = << >> THEN Ok(df)
  ELSE Ok(fill_stations(df, station_cols(df)))

\* The stages of clean_trip_data after the dedup, each on the result of the
\* one before; an exception of a stage leaves the function at once.  The
\* closing log line divides by df.height.
clean_logged(df, out) ==
  IF out.raised # "" THEN Raise(out.raised, out.stage, df)
  ELSE IF height(df) = 0 THEN Raise("ZeroDivisionError", "clean_trip_data", df)
  ELSE out

clean_after_types(df, s5) ==
  clean_logged(df, IF s5.raised # "" THEN s5 ELSE handle_missing_stations(s5.df))

clean_after_duration(df, s4) ==
  clean_after_types(df, IF s4.raised # "" THEN s4 ELSE standardize_data_types(s4.df))

clean_after_geo(df, s3) ==
  clean_after_duration(df, IF s3.raised # "" THEN s3 ELSE clean_duration(s3.df))

clean_after_timestamps(df, s2) ==
  clean_after_geo(df, IF s2.raised # "" THEN s2 ELSE filter_geographic_outliers(s2.df))

clean_after_dedup(df, deduped) ==
  clean_after_timestamps(df, clean_timestamps(deduped))

\* the outcomes clean_trip_data(df) can have
clean_trip_data(df) ==
  { clean_after_dedup(df, deduped) : deduped \in remove_duplicates(df) }

\* (num / den) * 100 on two integers: the true division gives a float
Percent(num, den) == float_mul(float_truediv(float(num), float(den)), float(100))

\* generate_cleaning_report with the subtraction of removed_rows turned round
generate_cleaning_report_swapped(original_df, cleaned_df) ==
  IF height(original_df) = 0
  THEN [raised |-> "ZeroDivisionError", report |-> << >>]
  ELSE [raised |-> "",
        report |-> << [original_size |-> height(original_df),
                       cleaned_size |-> height(cleaned_df),
                       removed_rows |-> height(cleaned_df) - height(original_df),
                       removal_percentage |->
                         Percent(height(original_df) - height(cleaned_df),
                                 height(original_df)),
                       data_quality_score |->
                         Percent(height(cleaned_df), height(original_df))] >>]

generate_cleaning_report(original_df, cleaned_df) ==
  IF height(original_df) = 0
  THEN [raised |-> "ZeroDivisionError", report |-> << >>]
  ELSE [raised |-> "",
        report |-> << [original_size |-> height(original_df),
                       cleaned_size |-> height(cleaned_df),
                       removed_rows |-> height(original_df) - height(cleaned_df),
                       removal_percentage |->
                         Percent(height(original_df) - height(cleaned_df),
                                 height(original_df)),
                       data_quality_score |->
                         Percent(height(cleaned_df), height(original_df))] >>]

\* ---------------------------------------------------------- validate_data
\* An entry of the issues or warnings list. kind stands for the message:
\*   "empty"            DataFrame is empty
\*   "missing_columns"  required columns are missing: cols
\*   "duplicates"       duplicates by ride_id found: count
\*   "negative"         trips with a negative duration: count
\*   "out_of_bounds"    coordinates outside Chicago in col: count
Finding(kind, cols, col, count) ==
  [kind |-> kind, cols |-> cols, col |-> col, count |-> count]

required_cols == << "started_at", "ended_at", "member_casual" >>
missing_cols(df) == SelectSeq(required_cols, LAMBDA c : c \notin columns(df))

null_count(df, col) == Cardinality({ i \in 1..Len(df.rows) : IsNull(df.rows[i][col]) })
n_unique(df, col) == Cardinality({ df.rows[i][col] : i \in 1..Len(df.rows) })

null_counts(df) ==
  [c \in { c \in columns(df) : null_count(df, c) > 0 } |->
     [count |-> null_count(df, c),
      percentage |-> Percent(null_count(df, c), height(df))]]

\* the duplicate check with >= in place of >: a warning with every ride_id column
duplicate_warnings_always(df) ==
  IF "ride_id" \in columns(df) /\ height(df) - n_unique(df, "ride_id") >= 0
  THEN << Finding("duplicates", << >>, "ride_id", height(df) - n_unique(df, "ride_id")) >>
  ELSE << >>

duplicate_warnings(df) ==
  IF "ride_id" \in columns(df) /\ height(df) - n_unique(df, "ride_id") > 0
  THEN << Finding("duplicates", << >>, "ride_id", height(df) - n_unique(df, "ride_id")) >>
  ELSE << >>

negative_duration_count(df) ==
  height(filter(df, { i \in 1..height(df) :
                        cell_le(df.rows[i]["ended_at"], df.rows[i]["started_at"]) }))

timestamp_warnings(df) ==
  IF "started_at" \in columns(df) /\ "ended_at" \in columns(df)
     /\ negative_duration_count(df) > 0
  THEN << Finding("negative", << >>, "", negative_duration_count(df)) >>
  ELSE << >>

coord_cols(df) ==
  SelectSeq(columns_list(df),
            LAMBDA c : \E x \in {"lat", "lng", "lon"} : NameContains(c, x))

\* rows where ~is_between(...) is true; a null cell gives null and is not counted
out_of_bounds(df, col) ==
  IF NameContains(col, "lat")
  THEN height(filter(df, { i \in 1..height(df) :
                             /\ ~IsNull(df.rows[i][col])
                             /\ ~is_between(df.rows[i][col], lat_min, lat_max) }))
  ELSE height(filter(df, { i \in 1..height(df) :
                             /\ ~IsNull(df.rows[i][col])
                             /\ ~is_between(df.rows[i][col], lng_min, lng_max) }))

RECURSIVE coordinate_warnings(_, _)
coordinate_warnings(df, cols) ==
  IF cols = << >> THEN << >>
  ELSE (IF out_of_bounds(df, Head(cols)) > 0
        THEN << Finding("out_of_bounds", << >>, Head(cols), out_of_bounds(df, Head(cols))) >>
        ELSE << >>) \o coordinate_warnings(df, Tail(cols))

EmptyDict == [x \in {} |-> 0]

\* validate_data without the return after the empty-dataset finding
validate_data_without_return(df) ==
  IF /\ "started_at" \in columns(df)
     /\ "ended_at" \in columns(df)
     /\ ~comparable(df, "ended_at", "started_at")
  THEN [raised |-> "InvalidOperationError", report |-> << >>]
  ELSE [raised |-> "",
        report |-> << [total_rows |-> height(df),
                       total_columns |-> Cardinality(columns(df)),
                       issues |-> (IF height(df) = 0
                                   THEN << Finding("empty", << >>, "", 0) >>
                                   ELSE << >>)
                                  \o (IF missing_cols(df) # << >>
                                      THEN << Finding("missing_columns", missing_cols(df), "", 0) >>
                                      ELSE << >>),
                       warnings |-> duplicate_warnings(df) \o timestamp_warnings(df)
                                      \o coordinate_warnings(df, coord_cols(df)),
                       summary |-> [null_counts |-> null_counts(df)]] >>]

validate_data(df) ==
  IF height(df) = 0
  THEN [raised |-> "",
        report |-> << [total_rows |-> height(df),
                       total_columns |-> Cardinality(columns(df)),
                       issues |-> << Finding("empty", << >>, "", 0) >>,
                       warnings |-> << >>,
                       summary |-> EmptyDict] >>]
  ELSE IF /\ "started_at" \in columns(df)
          /\ "ended_at" \in columns(df)
          /\ ~comparable(df, "ended_at", "started_at")
  THEN [raised |-> "InvalidOperationError", report |-> << >>]
  ELSE [raised |-> "",
        report |-> << [total_rows |-> height(df),
                       total_columns |-> Cardinality(columns(df)),
                       issues |-> IF missing_cols(df) # << >>
                                  THEN << Finding("missing_columns", missing_cols(df), "", 0) >>
                                  ELSE << >>,
                       warnings |-> duplicate_warnings(df) \o timestamp_warnings(df)
                                      \o coordinate_warnings(df, coord_cols(df)),
                       summary |-> [null_counts |-> null_counts(df)]] >>]

\* ------------------------------------------------------------ components
\* DataCleaner.__init__: the Chicago box and the duration limits
DataCleaner_init ==
  [chicago_bounds |-> [lat_min |-> lat_min, lat_max |-> lat_max,
                       lng_min |-> lng_min, lng_max |-> lng_max],
   duration_limits |-> [min |-> duration_min, max |-> duration_max]]

\* date(year, month, day)
Date(year, month, day) == [year |-> year, month |-> month, day |-> day]

\* TemporalFeatureExtractor.__init__: the peak-hour windows and the holidays
TemporalFeatureExtractor_init ==
  [morning_peak |-> << 7, 9 >>,
   evening_peak |-> << 16, 18 >>,
   holidays |->
     << Date(2020, 1, 1), Date(2020, 7, 4), Date(2020, 11, 26), Date(2020, 12, 25),
        Date(2021, 1, 1), Date(2021, 7, 4), Date(2021, 11, 25), Date(2021, 12, 25),
        Date(2022, 1, 1), Date(2022, 7, 4), Date(2022, 11, 24), Date(2022, 12, 25),
        Date(2023, 1, 1), Date(2023, 7, 4), Date(2023, 11, 23), Date(2023, 12, 25),
        Date(2024, 1, 1), Date(2024, 7, 4), Date(2024, 11, 28), Date(2024, 12, 25),
        Date(2025, 1, 1), Date(2025, 7, 4), Date(2025, 11, 27), Date(2025, 12, 25) >>]

\* ----------------------------------------------- TemporalFeatureExtractor
Bool(b) == [k |-> "bool", n |-> IF b THEN 1 ELSE 0, s |-> ""]
\* a pl.Date cell: n = days since 1970-01-01
DateCell(days) == [k |-> "date", n |-> days, s |-> ""]

\* df.with_columns([...]): names lists the aliases of the expressions in
\* their order, dtype maps them to their dtypes, series holds their cells
\* for every row; a column that df has is replaced where it stands, a new
\* one is appended
with_columns(df, names, dtype, series) ==
  [columns |-> df.columns \o SelectSeq(names, LAMBDA c : c \notin columns(df)),
   dtype |-> dtype @@ df.dtype,
   rows |-> [i \in 1..Len(df.rows) |-> series[i] @@ df.rows[i]]]

\* The calendar of a datetime t (seconds since 2024-06-15 08:00:00, which is
\* day 19889 after 1970-01-01): the day number and the second of the day.
epoch_days(t) == 19889 + ((t + 28800) \div 86400)
second_of_day(t) == (t + 28800) % 86400

\* the civil date of day z after 1970-01-01 in the proleptic Gregorian
\* calendar
civil_from_days(z) ==
  LET zz == z + 719468
      era == zz \div 146097
      doe == zz - era * 146097
      yoe == (doe - (doe \div 1460) + (doe \div 36524) - (doe \div 146096)) \div 365
      doy == doe - (365 * yoe + (yoe \div 4) - (yoe \div 100))
      mp == (5 * doy + 2) \div 153
      d == doy - ((153 * mp + 2) \div 5) + 1
      m == IF mp < 10 THEN mp + 3 ELSE mp - 9
      y == yoe + era * 400 + (IF m <= 2 THEN 1 ELSE 0)
  IN  Date(y, m, d)

\* the day number of a civil date
days_from_civil(year, month, day) ==
  LET y == IF month <= 2 THEN year - 1 ELSE year
      era == y \div 400
      yoe == y - era * 400
      mp == IF month > 2 THEN month - 3 ELSE month + 9
      doy == ((153 * mp + 2) \div 5) + day - 1
      doe == yoe * 365 + (yoe \div 4) - (yoe \div 100) + doy
  IN  era * 146097 + doe - 719468

\* dt.year(), dt.month(), dt.day(), dt.hour(), dt.minute()
dt_year(t) == civil_from_days(epoch_days(t)).year
dt_month(t) == civil_from_days(epoch_days(t)).month
dt_day(t) == civil_from_days(epoch_days(t)).day
dt_hour(t) == second_of_day(t) \div 3600
dt_minute(t) == (second_of_day(t) % 3600) \div 60

\* dt.weekday(): the ISO weekday, 1 = Monday .. 7 = Sunday (day 0 was a
\* Thursday)
dt_weekday(t) == ((epoch_days(t) + 3) % 7) + 1

\* dt.ordinal_day(): the day of the year, 1 = January 1
dt_ordinal_day(t) == epoch_days(t) - days_from_civil(dt_year(t), 1, 1) + 1

\* the number of ISO weeks of a year: 53 when January 1 is a Thursday, or a
\* Wednesday in a leap year
is_leap_year(y) == (y % 4 = 0 /\ y % 100 # 0) \/ y % 400 = 0
iso_weeks_in_year(y) ==
  LET jan1 == ((days_from_civil(y, 1, 1) + 3) % 7) + 1
  IN  IF jan1 = 4 \/ (jan1 = 3 /\ is_leap_year(y)) THEN 53 ELSE 52

\* dt.week(): the ISO week number
dt_week(t) ==
  LET w == (dt_ordinal_day(t) - dt_weekday(t) + 10) \div 7
  IN  IF w < 1 THEN iso_weeks_in_year(dt_year(t) - 1)
      ELSE IF w > iso_weeks_in_year(dt_year(t)) THEN 1
      ELSE w

\* the season of a month: 1 = winter, 2 = spring, 3 = summer, 4 = fall
season(month) ==
  IF month \in {12, 1, 2} THEN 1
  ELSE IF month \in {3, 4, 5} THEN 2
  ELSE IF month \in {6, 7, 8} THEN 3
  ELSE 4

\* dt.weekday() >= 6 with the weekend starting on Sunday only
is_weekend_sunday_only(weekday) == weekday >= 7

\* dt.weekday() >= 6
is_weekend(weekday) == weekday >= 6

\* in_peak with the end of the window included
in_peak_closed_window(hour, peak) == hour >= peak[1] /\ hour <= peak[2]

\* hour >= peak[0] and hour < peak[1]
in_peak(hour, peak) == hour >= peak[1] /\ hour < peak[2]

\* strftime('%Y-%m-%d') of a date, and pl.Date cast to pl.Utf8
Digits == << "0", "1", "2", "3", "4", "5", "6", "7", "8", "9" >>
two_digits(x) == Digits[(x \div 10) + 1] \o Digits[(x % 10) + 1]
strftime(d) ==
  two_digits(d.year \div 100) \o two_digits(d.year % 100)
    \o "-" \o two_digits(d.month) \o "-" \o two_digits(d.day)

\* holiday_dates of _add_holiday_features
holiday_dates(self) == { strftime(self.holidays[i]) : i \in 1..Len(self.holidays) }

\* is_holiday that compares the month and the day only
is_holiday_any_year(self, days) ==
  \E i \in 1..Len(self.holidays) :
    /\ self.holidays[i].month = civil_from_days(days).month
    /\ self.holidays[i].day = civil_from_days(days).day

\* pl.col('date').cast(pl.Utf8).is_in(holiday_dates)
is_holiday(self, days) == strftime(civil_from_days(days)) \in holiday_dates(self)

\* the columns that extract_time_features adds, in the order of its three
\* with_columns calls
time_feature_columns ==
  << "year", "month", "day", "hour", "minute", "weekday", "day_of_year",
     "week_of_year", "date", "season", "is_weekend", "is_morning_peak",
     "is_evening_peak", "is_peak_hour", "is_holiday" >>

\* their dtypes
time_feature_dtypes ==
  [year |-> "int32", month |-> "int8", day |-> "int8", hour |-> "int8",
   minute |-> "int8", weekday |-> "int8", day_of_year |-> "int16",
   week_of_year |-> "int8", date |-> "date", season |-> "int32",
   is_weekend |-> "bool", is_morning_peak |-> "bool", is_evening_peak |-> "bool",
   is_peak_hour |-> "bool", is_holiday |-> "bool"]

\* the new cells of a row whose datetime cell is c; the fields of a null
\* datetime are null, and the season of a null month is the otherwise branch
time_features(self, c) ==
  IF IsNull(c)
  THEN [col \in DOMAIN time_feature_dtypes |->
          IF col = "season" THEN Int64(4) ELSE Null]
  ELSE [year |-> Int64(dt_year(c.n)),
        month |-> Int64(dt_month(c.n)),
        day |-> Int64(dt_day(c.n)),
        hour |-> Int64(dt_hour(c.n)),
        minute |-> Int64(dt_minute(c.n)),
        weekday |-> Int64(dt_weekday(c.n)),
        day_of_year |-> Int64(dt_ordinal_day(c.n)),
        week_of_year |-> Int64(dt_week(c.n)),
        date |-> DateCell(epoch_days(c.n)),
        season |-> Int64(season(dt_month(c.n))),
        is_weekend |-> Bool(is_weekend(dt_weekday(c.n))),
        is_morning_peak |-> Bool(in_peak(dt_hour(c.n), self.morning_peak)),
        is_evening_peak |-> Bool(in_peak(dt_hour(c.n), self.evening_peak)),
        is_peak_hour |-> Bool(in_peak(dt_hour(c.n), self.morning_peak)
                                \/ in_peak(dt_hour(c.n), self.evening_peak)),
        is_holiday |-> Bool(is_holiday(self, epoch_days(c.n)))]

\* extract_time_features(df, datetime_col): ValueError without the column;
\* the dt namespace of a column that is no datetime raises
extract_time_features(self, df, datetime_col) ==
  IF datetime_col \notin columns(df)
  THEN Raise("ValueError", "extract_time_features", df)
  ELSE IF df.dtype[datetime_col] # "datetime"
  THEN Raise("SchemaError", "extract_time_features", df)
  ELSE Ok(with_columns(df, time_feature_columns, time_feature_dtypes,
                       [i \in 1..height(df) |->
                          time_features(self, df.rows[i][datetime_col])]))

\* The thresholds of the duration features, in minutes.
short_trip_minutes == 15
medium_trip_minutes == 45
very_short_trip_minutes == 5
long_category_minutes == 120

\* the columns that calculate_trip_duration_features adds, in the order of
\* its two with_columns calls
duration_feature_columns ==
  << "duration_minutes", "duration_seconds", "is_short_trip", "is_medium_trip",
     "is_long_trip", "is_very_short_trip", "duration_category" >>

\* their dtypes
duration_feature_dtypes ==
  [duration_minutes |-> "float", duration_seconds |-> "int64",
   is_short_trip |-> "bool", is_medium_trip |-> "bool", is_long_trip |-> "bool",
   is_very_short_trip |-> "bool", duration_category |-> "str"]

\* is_medium_trip with the lower limit included
is_medium_trip_from_lower_limit(d) ==
  d >= short_trip_minutes * SecondsPerMinute
    /\ d <= medium_trip_minutes * SecondsPerMinute

\* (duration_minutes > 15) & (duration_minutes <= 45), d in minutes x 60
is_medium_trip(d) ==
  d > short_trip_minutes * SecondsPerMinute
    /\ d <= medium_trip_minutes * SecondsPerMinute

\* duration_category with the upper limits excluded
duration_category_exclusive(d) ==
  IF d < very_short_trip_minutes * SecondsPerMinute THEN "very_short"
  ELSE IF d < short_trip_minutes * SecondsPerMinute THEN "short"
  ELSE IF d < medium_trip_minutes * SecondsPerMinute THEN "medium"
  ELSE IF d < long_category_minutes * SecondsPerMinute THEN "long"
  ELSE "very_long"

\* the when/then chain of duration_category, d in minutes x 60
duration_category(d) ==
  IF d <= very_short_trip_minutes * SecondsPerMinute THEN "very_short"
  ELSE IF d <= short_trip_minutes * SecondsPerMinute THEN "short"
  ELSE IF d <= medium_trip_minutes * SecondsPerMinute THEN "medium"
  ELSE IF d <= long_category_minutes * SecondsPerMinute THEN "long"
  ELSE "very_long"

\* the new cells of a row with the cells a = start and b = end; the
\* comparisons of a null duration are null, and its category is the
\* otherwise branch
duration_features(a, b) ==
  IF IsNull(a) \/ IsNull(b)
  THEN [col \in DOMAIN duration_feature_dtypes |->
          IF col = "duration_category" THEN Str("very_long") ELSE Null]
  ELSE LET d == b.n - a.n
       IN  [duration_minutes |-> Flt(d),
            duration_seconds |-> Int64(d),
            is_short_trip |-> Bool(d <= short_trip_minutes * SecondsPerMinute),
            is_medium_trip |-> Bool(is_medium_trip(d)),
            is_long_trip |-> Bool(d > medium_trip_minutes * SecondsPerMinute),
            is_very_short_trip |->
              Bool(d <= very_short_trip_minutes * SecondsPerMinute),
            duration_category |-> Str(duration_category(d))]

\* calculate_trip_duration_features(df, start_col, end_col): ValueError
\* without one of the columns; the difference of columns that are no
\* datetimes raises
calculate_trip_duration_features(self, df, start_col, end_col) ==
  IF start_col \notin columns(df) \/ end_col \notin columns(df)
  THEN Raise("ValueError", "calculate_trip_duration_features", df)
  ELSE IF df.dtype[start_col] # "datetime" \/ df.dtype[end_col] # "datetime"
  THEN Raise("InvalidOperationError", "calculate_trip_duration_features", df)
  ELSE Ok(with_columns(df, duration_feature_columns, duration_feature_dtypes,
                       [i \in 1..height(df) |->
                          duration_features(df.rows[i][start_col],
                                            df.rows[i][end_col])]))

\* A cyclical feature is kept as the angle it is the sine or cosine of:
\* the cell [k = "float", n, s] with s = "sin/24" is sin(2 pi n / 24).
Cyclical(fn, n, period) ==
  [k |-> "float", n |-> n, s |-> fn \o "/" \o period]

\* the columns create_cyclical_features reads, with their periods
cyclical_periods ==
  [hour |-> "24", weekday |-> "7", month |-> "12", day_of_year |-> "365"]

\* the columns create_cyclical_features adds to df: a sine and a cosine for
\* each of the four columns that df has
cyclical_sources(df) == DOMAIN cyclical_periods \cap columns(df)

sin_col(col) ==
  CASE col = "hour" -> "hour_sin" [] col = "weekday" -> "weekday_sin"
    [] col = "month" -> "month_sin" [] col = "day_of_year" -> "day_of_year_sin"
cos_col(col) ==
  CASE col = "hour" -> "hour_cos" [] col = "weekday" -> "weekday_cos"
    [] col = "month" -> "month_cos" [] col = "day_of_year" -> "day_of_year_cos"

cyclical_cells(df, r) ==
  LET src == cyclical_sources(df)
      new == { sin_col(c) : c \in src } \cup { cos_col(c) : c \in src }
  IN  [col \in new |->
         LET c == CHOOSE x \in src : col \in {sin_col(x), cos_col(x)}
         IN  IF IsNull(r[c]) THEN Null
             ELSE Cyclical(IF col = sin_col(c) THEN "sin" ELSE "cos",
                           r[c].n, cyclical_periods[c])]

\* the new columns in the order of the four steps
cyclical_columns ==
  << "hour_sin", "hour_cos", "weekday_sin", "weekday_cos", "month_sin",
     "month_cos", "day_of_year_sin", "day_of_year_cos" >>

create_cyclical_features(self, df) ==
  LET src == cyclical_sources(df)
      new == { sin_col(c) : c \in src } \cup { cos_col(c) : c \in src }
  IN  IF src = {} THEN df
      ELSE with_columns(df, SelectSeq(cyclical_columns, LAMBDA c : c \in new),
                        [col \in new |-> "float"],
                        [i \in 1..height(df) |-> cyclical_cells(df, df.rows[i])])

\* The integer arithmetic of a column: the result has the wider dtype of
\* its operands, and a value outside the dtype wraps around.
int_bits(dtype) ==
  CASE dtype = "int8" -> 8 [] dtype = "int16" -> 16 [] dtype = "int32" -> 32
    [] OTHER -> 64

wider(a, b) == IF int_bits(a) >= int_bits(b) THEN a ELSE b

\* two's complement of x in the dtype; the values of the model stay far
\* below 32 bits
wrap(dtype, x) ==
  IF int_bits(dtype) > 16 THEN x
  ELSE LET m == 2 ^ int_bits(dtype)
       IN  ((x + m \div 2) % m) - m \div 2

\* pl.col(a) * factor + b, where factor is a literal that takes the dtype
\* of a and b is a cell of dtype bt
scaled_sum(at, a, factor, bt, b) ==
  IF IsNull(a) \/ IsNull(b) THEN Null
  ELSE Int64(wrap(wider(at, bt), wrap(at, a.n * factor) + b.n))

\* is_weekend.cast(pl.Int32)
cast_int32(c) == IF IsNull(c) THEN Null ELSE Int64(c.n)

\* the dtypes of the columns create_interaction_features adds to df
interaction_dtypes(df) ==
  (IF {"hour", "weekday"} \subseteq columns(df)
   THEN [hour_weekday_interaction |-> wider(df.dtype["hour"], df.dtype["weekday"])]
   ELSE EmptyDict)
  @@ (IF {"season", "is_weekend"} \subseteq columns(df)
      THEN [season_weekend_interaction |-> wider(df.dtype["season"], "int32")]
      ELSE EmptyDict)
  @@ (IF {"month", "hour"} \subseteq columns(df)
      THEN [month_hour_interaction |-> wider(df.dtype["month"], df.dtype["hour"])]
      ELSE EmptyDict)

interaction_cells(df, r) ==
  [col \in DOMAIN interaction_dtypes(df) |->
     CASE col = "hour_weekday_interaction" ->
            scaled_sum(df.dtype["hour"], r["hour"], 10,
                       df.dtype["weekday"], r["weekday"])
       [] col = "season_weekend_interaction" ->
            scaled_sum(df.dtype["season"], r["season"], 10,
                       "int32", cast_int32(r["is_weekend"]))
       [] col = "month_hour_interaction" ->
            scaled_sum(df.dtype["month"], r["month"], 100,
                       df.dtype["hour"], r["hour"])]

\* the aliases of interaction_features, in the order they are appended
interaction_columns ==
  << "hour_weekday_interaction", "season_weekend_interaction",
     "month_hour_interaction" >>

create_interaction_features(self, df) ==
  IF DOMAIN interaction_dtypes(df) = {} THEN df
  ELSE with_columns(df,
                    SelectSeq(interaction_columns,
                              LAMBDA c : c \in DOMAIN interaction_dtypes(df)),
                    interaction_dtypes(df),
                    [i \in 1..height(df) |-> interaction_cells(df, df.rows[i])])

\* the step of create_all_temporal_features that adds the duration
\* features: the end column is looked for in df, the frame that was handed
\* in, and the features are computed on df_features, the frame with the time
\* features; end_datetime_col = "" is None
with_duration_features(self, df, df_features, datetime_col, end_datetime_col) ==
  IF end_datetime_col # "" /\ end_datetime_col \in columns(df)
  THEN calculate_trip_duration_features(self, df_features, datetime_col,
                                        end_datetime_col)
  ELSE Ok(df_features)

\* the steps that add the cyclical and the interaction features
with_cyclical_features(self, df, include_cyclical) ==
  IF include_cyclical THEN create_cyclical_features(self, df) ELSE df

with_interaction_features(self, df, include_interactions) ==
  IF include_interactions THEN create_interaction_features(self, df) ELSE df

\* create_all_temporal_features(df, datetime_col, end_datetime_col, ...)
all_features_lasting(self, lasting, include_cyclical, include_interactions) ==
  IF lasting.raised # "" THEN lasting
  ELSE Ok(with_interaction_features(
            self,
            with_cyclical_features(self, lasting.df, include_cyclical),
            include_interactions))

all_features_timed(self, df, timed, datetime_col, end_datetime_col, include_cyclical, include_interactions) ==
  IF timed.raised # "" THEN timed
  ELSE all_features_lasting(self,
                            with_duration_features(self, df, timed.df, datetime_col,
                                                   end_datetime_col),
                            include_cyclical, include_interactions)

create_all_temporal_features(self, df, datetime_col, end_datetime_col, include_cyclical, include_interactions) ==
  all_features_timed(self, df, extract_time_features(self, df, datetime_col),
                     datetime_col, end_datetime_col, include_cyclical,
                     include_interactions)

\* df.sort(col): the orders it may return.  Nulls come first, and rows
\* with the same key may come in any order (maintain_order is not asked for).
key_le(a, b) == IsNull(a) \/ (~IsNull(b) /\ a.n <= b.n)

sort(df, col) ==
  LET n == height(df)
      orders == { o \in [1..n -> 1..n] :
                    /\ \A i, j \in 1..n : i # j => o[i] # o[j]
                    /\ \A i \in 1..n, j \in 1..n :
                         i < j => key_le(df.rows[o[i]][col], df.rows[o[j]][col]) }
  IN  { [df EXCEPT !.rows = [i \in 1..n |-> df.rows[o[i]]]] : o \in orders }

\* shift that wraps around the ends of the column
shift_around(rows, value_col, period, i) ==
  rows[((i - period - 1) % Len(rows)) + 1][value_col]

\* pl.col(value_col).shift(period) at row i of the rows
shift(rows, value_col, period, i) ==
  IF i - period \in 1..Len(rows) THEN rows[i - period][value_col] ELSE Null

\* the sums of the values and of their squares over the rows i-period+1..i
window_sum(rows, value_col, period, i) ==
  LET F[k \in 0..period] ==
        IF k = 0 THEN 0 ELSE F[k - 1] + rows[i - k + 1][value_col].n
  IN  F[period]

window_squares(rows, value_col, period, i) ==
  LET F[k \in 0..period] ==
        IF k = 0 THEN 0
        ELSE F[k - 1] + rows[i - k + 1][value_col].n * rows[i - k + 1][value_col].n
  IN  F[period]

\* a window is full when it has period rows, none of them null
window_full(rows, value_col, period, i) ==
  /\ i >= period
  /\ \A k \in i - period + 1..i : ~IsNull(rows[k][value_col])

\* rolling_mean(period) at row i: the cell [k = "float", n, s = "/p"] is the
\* mean n / p of the window
rolling_mean(rows, value_col, period, i) ==
  IF ~window_full(rows, value_col, period, i) THEN Null
  ELSE [k |-> "float", n |-> window_sum(rows, value_col, period, i),
        s |-> "/" \o ToString(period)]

\* rolling_std(period) at row i, the sample standard deviation of the
\* window: the cell [k = "float", n, s = "sqrt/q"] is sqrt(n / q), with
\* n = p * sum of squares - (sum)^2 and q = p * (p - 1)
rolling_std(rows, value_col, period, i) ==
  IF ~window_full(rows, value_col, period, i) THEN Null
  ELSE [k |-> "float",
        n |-> period * window_squares(rows, value_col, period, i)
                - window_sum(rows, value_col, period, i)
                    * window_sum(rows, value_col, period, i),
        s |-> "sqrt/" \o ToString(period * (period - 1))]

\* f'{value_col}_lag_{period}' and the three other names
lag_col(value_col, period) == value_col \o "_lag_" \o ToString(period)
lead_col(value_col, period) == value_col \o "_lead_" \o ToString(period)
ma_col(value_col, period) == value_col \o "_ma_" \o ToString(period)
std_col(value_col, period) == value_col \o "_std_" \o ToString(period)

\* the periods of the list, and those that get rolling columns
period_set(periods) == { periods[k] : k \in 1..Len(periods) }
rolling_periods(periods) == { p \in period_set(periods) : p > 1 }

\* the aliases of lag_expressions: a lag and a lead for each period of the
\* list, in its order
lag_columns(value_col, periods) ==
  [k \in 1..2 * Len(periods) |->
     IF k % 2 = 1 THEN lag_col(value_col, periods[(k + 1) \div 2])
     ELSE lead_col(value_col, periods[k \div 2])]

\* the aliases of rolling_expressions: a mean and a standard deviation for
\* each period above 1
rolling_columns(value_col, periods) ==
  LET ps == SelectSeq(periods, LAMBDA p : p > 1)
  IN  [k \in 1..2 * Len(ps) |->
         IF k % 2 = 1 THEN ma_col(value_col, ps[(k + 1) \div 2])
         ELSE std_col(value_col, ps[k \div 2])]

\* the lag and lead columns of the sorted frame
lag_expressions(df, value_col, periods) ==
  LET ps == period_set(periods)
      new == { lag_col(value_col, p) : p \in ps }
               \cup { lead_col(value_col, p) : p \in ps }
  IN  with_columns(df, lag_columns(value_col, periods),
                   [c \in new |-> df.dtype[value_col]],
        [i \in 1..height(df) |->
           [c \in new |->
              LET p == CHOOSE q \in ps :
                         c \in {lag_col(value_col, q), lead_col(value_col, q)}
              IN  IF c = lag_col(value_col, p)
                  THEN shift(df.rows, value_col, p, i)
                  ELSE shift(df.rows, value_col, -p, i)]])

\* the rolling mean and standard deviation columns
rolling_expressions(df, value_col, periods) ==
  LET ps == rolling_periods(periods)
      new == { ma_col(value_col, p) : p \in ps }
               \cup { std_col(value_col, p) : p \in ps }
  IN  IF ps = {} THEN df
      ELSE with_columns(df, rolling_columns(value_col, periods),
                        [c \in new |-> "float"],
        [i \in 1..height(df) |->
           [c \in new |->
              LET p == CHOOSE q \in ps :
                         c \in {ma_col(value_col, q), std_col(value_col, q)}
              IN  IF c = ma_col(value_col, p)
                  THEN rolling_mean(df.rows, value_col, p, i)
                  ELSE rolling_std(df.rows, value_col, p, i)]])

\* create_lag_features(df, value_col, date_col, periods): the outcomes, one
\* for each order the sort may return
create_lag_features(self, df, value_col, date_col, periods) ==
  IF value_col \notin columns(df) \/ date_col \notin columns(df)
  THEN { Raise("ValueError", "create_lag_features", df) }
  ELSE { Ok(rolling_expressions(lag_expressions(sorted, value_col, periods),
                                value_col, periods)) :
           sorted \in sort(df, date_col) }

\* ------------------------------------------------ the dataset loaders
\* load_dataset and lazy_load_dataset are generators under @contextmanager.
\* A generator is suspended at one of its three yields: "try" (the yield of
\* the frame that was read), "not_found" and "error" (the yields of the empty
\* frame in the two handlers).

\* the exceptions that `except Exception` catches, among those of the model
is_exception(exc) == exc # "KeyboardInterrupt"

\* the path of the dataset; load_dataset refuses source = 'raw'
dataset_dir(fn, source) ==
  IF source = "processed" THEN [raised |-> "", dir |-> "processed"]
  ELSE IF source = "interim" THEN [raised |-> "", dir |-> "interim"]
  ELSE IF fn = "load_dataset" /\ source = "raw"
       THEN [raised |-> "ValueError", dir |-> ""]
  ELSE [raised |-> "", dir |-> "external/" \o source]

\* pl.read_parquet(path) / pl.scan_parquet(path) on a file that is
\* readable, missing, or no parquet file
read_parquet(file) ==
  CASE file = "readable" -> ""
    [] file = "missing" -> "FileNotFoundError"
    [] file = "corrupt" -> "ComputeError"

\* the handler of the try statement that catches exc: its yield, or "" when
\* no handler catches
handler(exc) ==
  IF exc = "FileNotFoundError" THEN "not_found"
  ELSE IF is_exception(exc) THEN "error"
  ELSE ""

\* the frame a yield gives
yield_value(at) == IF at = "try" THEN "data" ELSE "empty"

\* next(gen) on a new generator: it runs to its first yield, or raises
gen_start(fn, source, file) ==
  IF dataset_dir(fn, source).raised # ""
  THEN [raised |-> dataset_dir(fn, source).raised, at |-> ""]
  ELSE IF read_parquet(file) = "" THEN [raised |-> "", at |-> "try"]
  ELSE [raised |-> "", at |-> handler(read_parquet(file))]

\* gen.throw(exc) on a generator suspended at the yield `at`: a yield inside
\* the try statement is covered by its handlers, which yield again; a yield
\* inside a handler is not, and the exception leaves the generator
gen_throw(at, exc) ==
  IF at = "try" /\ handler(exc) # ""
  THEN [raised |-> "", at |-> handler(exc)]
  ELSE [raised |-> exc, at |-> ""]

\* contextmanager.__exit__ with the outcome of the with-block: "returns" or
\* the exception the block raised.  It resumes the generator, which ends
\* after any of its yields; after a throw, a generator that yields again is
\* an error of the context manager, and an exception that leaves the
\* generator is the one the with statement raises.
context_exit(at, body) ==
  IF body = "returns" THEN [raised |-> "", yields |-> << >>]
  ELSE IF gen_throw(at, body).raised = ""
       THEN [raised |-> "RuntimeError",
             yields |-> << yield_value(gen_throw(at, body).at) >>]
  ELSE [raised |-> gen_throw(at, body).raised, yields |-> << >>]

\* ----------------------------------------------------- UnitEconomicsModel
\* One entry of the tariff table; the two prices are given in thousandths
\* of a dollar: the literal 0.125 is float_literal(125, 1000).  free_minutes
\* is an int.
Tariff(unlock_fee, per_minute, free_minutes) ==
  [unlock_fee |-> float_literal(unlock_fee, 1000),
   per_minute |-> float_literal(per_minute, 1000),
   free_minutes |-> free_minutes]

\* _load_pricing_rules(): year -> user type -> bike type -> entry
load_pricing_rules ==
  (2020 :> [casual |-> [classic_bike |-> Tariff(2500, 125, 0), electric_bike |-> Tariff(3000, 185, 0)],
            member |-> [classic_bike |-> Tariff(0, 126, 60), electric_bike |-> Tariff(0, 154, 45)]]) @@
  (2021 :> [casual |-> [classic_bike |-> Tariff(2800, 135, 0), electric_bike |-> Tariff(3200, 195, 0)],
            member |-> [classic_bike |-> Tariff(0, 136, 60), electric_bike |-> Tariff(0, 164, 45)]]) @@
  (2022 :> [casual |-> [classic_bike |-> Tariff(900, 141, 10), electric_bike |-> Tariff(1000, 355, 5)],
            member |-> [classic_bike |-> Tariff(0, 146, 60), electric_bike |-> Tariff(0, 143, 30)]]) @@
  (2023 :> [casual |-> [classic_bike |-> Tariff(900, 151, 10), electric_bike |-> Tariff(1000, 385, 5)],
            member |-> [classic_bike |-> Tariff(0, 156, 60), electric_bike |-> Tariff(0, 153, 30)]]) @@
  (2024 :> [casual |-> [classic_bike |-> Tariff(900, 161, 10), electric_bike |-> Tariff(1000, 405, 5)],
            member |-> [classic_bike |-> Tariff(0, 166, 60), electric_bike |-> Tariff(0, 163, 30)]]) @@
  (2025 :> [casual |-> [classic_bike |-> Tariff(900, 171, 10), electric_bike |-> Tariff(1000, 425, 5)],
            member |-> [classic_bike |-> Tariff(0, 176, 60), electric_bike |-> Tariff(0, 173, 30)]])

\* the year whose row prices a trip of a year the table does not hold
fallback_year == 2025

\* the fallback to the first row of the table in place of the latest
pricing_year_falling_back_to_first(rules, year) ==
  IF year \notin DOMAIN rules
  THEN CHOOSE y \in DOMAIN rules : \A z \in DOMAIN rules : y <= z
  ELSE year

\* if year not in self.pricing_rules: year = 2025
pricing_year(rules, year) ==
  IF year \notin DOMAIN rules THEN fallback_year ELSE year

\* the user type compared without regard to letter case
normalized_user_type_ignoring_case(user_type) ==
  IF to_lowercase(user_type) = "casual" THEN "casual" ELSE "member"

\* 'casual' if user_type == 'casual' else 'member'
normalized_user_type(user_type) ==
  IF user_type = "casual" THEN "casual" ELSE "member"

\* 'electric_bike' if 'electric' in bike_type.lower() else 'classic_bike'
normalized_bike_type(bike_type) ==
  IF NameContains(to_lowercase(bike_type), "electric")
  THEN "electric_bike"
  ELSE "classic_bike"

\* the price with every minute charged once the free minutes are used up
tariff_cost_charging_all_minutes(pricing, duration_minutes) ==
  IF float_le(duration_minutes, float(pricing.free_minutes))
  THEN pricing.unlock_fee
  ELSE float_add(pricing.unlock_fee, float_mul(duration_minutes, pricing.per_minute))

\* the price without the unlock fee once the free minutes are used up
tariff_cost_without_unlock_fee(pricing, duration_minutes) ==
  IF float_le(duration_minutes, float(pricing.free_minutes))
  THEN pricing.unlock_fee
  ELSE float_mul(float_sub(duration_minutes, float(pricing.free_minutes)),
                 pricing.per_minute)

\* the price of a trip under one entry of the table:
\* unlock_fee + (duration_minutes - free_minutes) * per_minute
tariff_cost(pricing, duration_minutes) ==
  IF float_le(duration_minutes, float(pricing.free_minutes))
  THEN pricing.unlock_fee
  ELSE float_add(pricing.unlock_fee,
                 float_mul(float_sub(duration_minutes, float(pricing.free_minutes)),
                           pricing.per_minute))

\* calculate_ride_cost(duration_minutes, user_type, bike_type, year) on the
\* table rules = self.pricing_rules
calculate_ride_cost(rules, duration_minutes, user_type, bike_type, year) ==
  tariff_cost(rules[pricing_year(rules, year)]
                   [normalized_user_type(user_type)]
                   [normalized_bike_type(bike_type)],
              duration_minutes)

\* self.pricing_rules after a call of calculate_ride_cost that stores the
\* fallback row under the year it was asked for
pricing_rules_after_cost_caching(rules, year) ==
  IF year \in DOMAIN rules
  THEN rules
  ELSE [y \in DOMAIN rules \cup {year} |->
          IF y = year THEN rules[fallback_year] ELSE rules[y]]

\* self.pricing_rules after a call of calculate_ride_cost: the fallback
\* rebinds the local name year and writes nothing
pricing_rules_after_cost(rules, year) == rules

\* ------------------------------------------------------- revenue and KPIs
\* the columns of cols that df lacks
lacks(df, cols) == cols \ columns(df)

\* the lambda of map_elements on the row r: None <= int raises TypeError
\* for a null duration and None.lower() raises AttributeError for a null
\* bike type; a null user type is not 'casual' and a null year is no key of
\* the table (the payloads "" and 0 of a null cell)
cost_raises(r) == IsNull(r["duration_minutes"]) \/ IsNull(r["rideable_type"])

\* the double of a duration cell: its seconds / 60.0
minutes(c) == float_truediv(float(c.n), float(SecondsPerMinute))

ride_cost(rules, r) ==
  calculate_ride_cost(rules, minutes(r["duration_minutes"]),
                      r["member_casual"].s, r["rideable_type"].s, r["year"].n)

\* the column ride_cost
ride_costs(rules, df) == [i \in 1..height(df) |-> ride_cost(rules, df.rows[i])]

\* self.pricing_rules after the calls of calculate_ride_cost on rows
RECURSIVE pricing_rules_after_costs(_, _)
pricing_rules_after_costs(rules, rows) ==
  IF rows = << >> THEN rules
  ELSE pricing_rules_after_costs(pricing_rules_after_cost(rules, Head(rows)["year"].n),
                                 Tail(rows))

\* the key of a group with the letter case of a text key ignored
group_key_ignoring_case(c) == IF c.k = "str" THEN Str(to_lowercase(c.s)) ELSE c

\* the key of the group of a cell: the cell itself, a null cell included
group_key(c) == c

\* the rows of the group of key
group_rows(df, col, key) == { i \in 1..height(df) : group_key(df.rows[i][col]) = key }

\* pl.count(), pl.col('ride_cost').sum() and .mean() of one group
group_aggregates(rides, revenue) ==
  [rides |-> rides, revenue |-> revenue, avg_cost |-> float_truediv(revenue, float(rides))]

group_of(costs, members) ==
  group_aggregates(Cardinality(members), float_sum(SelectRows(costs, members)))

\* group_by(col).agg([count, sum, mean]) on the costs of the rows: a mapping
\* from the keys to the aggregates (the order of the groups is not part of
\* the result)
group_metrics(df, costs, col) ==
  [key \in { group_key(df.rows[i][col]) : i \in 1..height(df) } |->
     group_of(costs, group_rows(df, col, key))]

\* the dict that calculate_revenue_metrics returns; the mean of no value is
\* None, written << >>
revenue_metrics_dict(df, costs, total_revenue) ==
  [total_rides |-> height(df),
   total_revenue |-> total_revenue,
   avg_ride_cost |-> IF height(df) = 0 THEN << >>
                     ELSE << float_truediv(total_revenue, float(height(df))) >>,
   user_metrics |-> group_metrics(df, costs, "member_casual"),
   bike_metrics |-> group_metrics(df, costs, "rideable_type")]

\* the metrics of the frame with the column ride_cost
revenue_metrics_of(df, costs) == revenue_metrics_dict(df, costs, float_sum(costs))

\* calculate_revenue_metrics(df)
calculate_revenue_metrics(rules, df) ==
  IF lacks(df, {"duration_minutes", "member_casual", "rideable_type", "year"}) # {}
  THEN [raised |-> "ColumnNotFoundError", report |-> << >>]
  ELSE IF \E i \in 1..height(df) : cost_raises(df.rows[i])
  THEN [raised |-> "ComputeError", report |-> << >>]
  ELSE [raised |-> "", report |-> << revenue_metrics_of(df, ride_costs(rules, df)) >>]

\* the price of a monthly subscription, in dollars
monthly_subscription_fee == 15

\* the rows of every user type in place of the rows of the members
member_rows_of_every_user_type(df) == df

\* df.filter(pl.col('member_casual') == 'member')
member_rows(df) ==
  filter(df, { i \in 1..height(df) : df.rows[i]["member_casual"] = Str("member") })

\* group_by(['year', 'month']).agg(ride_id.n_unique())
monthly_members(member_df) ==
  [g \in { << member_df.rows[i]["year"], member_df.rows[i]["month"] >> :
             i \in 1..height(member_df) } |->
     Cardinality({ member_df.rows[i]["ride_id"] :
                     i \in { j \in 1..height(member_df) :
                               << member_df.rows[j]["year"], member_df.rows[j]["month"] >> = g } })]

\* Series.sum() of the values of a mapping
RECURSIVE sum_values(_)
sum_values(f) ==
  IF DOMAIN f = {} THEN 0
  ELSE LET k == CHOOSE k \in DOMAIN f : TRUE
       IN  f[k] + sum_values([x \in DOMAIN f \ {k} |-> f[x]])

\* the share of the members that is taken to pay a subscription: 0.6
subscriber_share == float_literal(6, 10)

\* the dict that calculate_subscription_revenue returns for members, the sum
\* of the monthly numbers of members
subscription_dict(members) ==
  [subscription_revenue |->
     float_mul(float_mul(float(members), float(monthly_subscription_fee)),
               subscriber_share),
   monthly_subscription_fee |-> float(monthly_subscription_fee),
   estimated_subscribers |-> float_mul(float(members), subscriber_share)]

\* calculate_subscription_revenue(df)
calculate_subscription_revenue(df) ==
  IF lacks(df, {"member_casual", "year", "month", "ride_id"}) # {}
  THEN [raised |-> "ColumnNotFoundError", report |-> << >>]
  ELSE [raised |-> "",
        report |-> << subscription_dict(sum_values(monthly_members(member_rows(df)))) >>]

\* the assumed lifetime of a customer, in months
avg_customer_lifetime_months == 40
\* the assumed cost of acquiring a customer, in dollars
cac == 40

\* the total revenue without the subscriptions
kpi_total_revenue_rides_only(ride_revenue, subscription_revenue) == ride_revenue

\* revenue_metrics['total_revenue'] + subscription_metrics['subscription_revenue']
kpi_total_revenue(ride_revenue, subscription_revenue) ==
  float_add(ride_revenue, subscription_revenue)

\* the dict that calculate_kpis returns
kpis_dict(ride_revenue, subscription_revenue, total_revenue, arpu, ltv) ==
  [arpu |-> arpu,
   ltv |-> ltv,
   cac |-> float(cac),
   roi |-> float_mul(float_truediv(float_sub(ltv, float(cac)), float(cac)), float(100)),
   gross_margin |-> float_literal(96, 100),
   ltv_cac_ratio |-> float_truediv(ltv, float(cac)),
   total_revenue |-> total_revenue,
   ride_revenue |-> ride_revenue,
   subscription_revenue |-> subscription_revenue]

\* ltv = arpu * avg_customer_lifetime_months
kpis_of_arpu(ride_revenue, subscription_revenue, total_revenue, arpu) ==
  kpis_dict(ride_revenue, subscription_revenue, total_revenue, arpu,
            float_mul(arpu, float(avg_customer_lifetime_months)))

\* arpu = total_revenue / total_users if total_users > 0 else 0
kpis_of_total(ride_revenue, subscription_revenue, total_revenue, total_users) ==
  kpis_of_arpu(ride_revenue, subscription_revenue, total_revenue,
               IF total_users > 0 THEN float_truediv(total_revenue, float(total_users))
               ELSE float(0))

kpis_of(ride_revenue, subscription_revenue, total_users) ==
  kpis_of_total(ride_revenue, subscription_revenue,
                kpi_total_revenue(ride_revenue, subscription_revenue), total_users)

\* the KPIs from what the two calculations returned
kpis_from(revenue_metrics, subscription_metrics, df) ==
  IF revenue_metrics.raised # ""
  THEN [raised |-> revenue_metrics.raised, report |-> << >>]
  ELSE IF subscription_metrics.raised # ""
  THEN [raised |-> subscription_metrics.raised, report |-> << >>]
  ELSE [raised |-> "",
        report |-> << kpis_of(revenue_metrics.report[1].total_revenue,
                              subscription_metrics.report[1].subscription_revenue,
                              n_unique(df, "ride_id")) >>]

\* calculate_kpis(df)
calculate_kpis(rules, df) ==
  kpis_from(calculate_revenue_metrics(rules, df), calculate_subscription_revenue(df), df)

\* ------------------------------------------------------------- the inputs
\* The frames handed to the cleaner and the validator: for each family of
\* columns, every frame of at most MaxRows rows over the values listed.
\* The header of a trip file: the columns of the Divvy export in their
\* order, then a duration column where the file has one.
TripFileColumns ==
  << "ride_id", "rideable_type", "started_at", "ended_at",
     "start_station_name", "start_station_id", "end_station_name",
     "end_station_id", "start_lat", "start_lng", "end_lat", "end_lng",
     "member_casual", "trip_duration", "duration_minutes" >>

\* a frame read from a trip file with the columns of dtype
TripFile(dtype, rows) ==
  DataFrame(SelectSeq(TripFileColumns, LAMBDA c : c \in DOMAIN dtype), dtype, rows)

Frames(dtype, rowset) ==
  { TripFile(dtype, rs) :
      rs \in UNION { [1..n -> rowset] : n \in 0..MaxRows } }

Datetimes == [started_at |-> "datetime", ended_at |-> "datetime"]

\* trips with the duration boundaries: 59 s, 1 min, 1440 min, 1440 min + 1 s
TimesFrames ==
  Frames(Datetimes,
         [started_at : {Dt(0), Dt(60)},
          ended_at : {Null, Dt(0), Dt(59), Dt(60), Dt(86400), Dt(86401)}])

KeyedFrames ==
  Frames([ride_id |-> "str"] @@ Datetimes,
         [ride_id : {Null, Str("R1"), Str("R2")},
          started_at : {Dt(0)},
          ended_at : {Dt(0), Dt(60), Dt(600)}])

TierFrames ==
  Frames(Datetimes @@ [member_casual |-> "str"],
         [started_at : {Dt(0)},
          ended_at : {Dt(0), Dt(600)},
          member_casual : {Str("member"), Str("Member"), Str("casual")}])

GeoFrames ==
  Frames([start_lat |-> "float", start_lng |-> "float"],
         [start_lat : {Null, Flt(414), Flt(415), Flt(425), Flt(426)},
          start_lng : {Flt(-881), Flt(-880), Flt(-870), Flt(-869)}])

LatOnlyFrames ==
  Frames([start_lat |-> "float", member_casual |-> "str"],
         [start_lat : {Null, Flt(414), Flt(420)},
          member_casual : {Str("member")}])

\* timestamps that arrive as text, some of it not a timestamp
TextTimeFrames ==
  Frames([started_at |-> "str", ended_at |-> "str"],
         [started_at : {Str("2024-06-15 08:00:00"), Str("n/a")},
          ended_at : {Null, Str("2024-06-15 07:59:00"), Str("2024-06-15 08:01:00"),
                      Str("n/a")}])

TextTimeDurationFrames ==
  Frames([started_at |-> "str", ended_at |-> "str", trip_duration |-> "float"],
         [started_at : {Str("2024-06-15 08:00:00"), Str("n/a")},
          ended_at : {Str("2024-06-15 07:59:00"), Str("2024-06-15 08:10:00"), Str("n/a")},
          trip_duration : {Flt(30), Flt(600)}])

MixedTimeFrames ==
  Frames([started_at |-> "datetime", ended_at |-> "str"],
         [started_at : {Dt(0)},
          ended_at : {Str("2024-06-15 08:10:00"), Str("n/a")}])

StationFrames ==
  Frames([start_station_name |-> "str", start_station_id |-> "int"],
         [start_station_name : {Null, Str("Clark St"), Str("Non-Station Parking")},
          start_station_id : {Null, Int64(13022)}])

\* frames that bring their own duration column
OwnDurationFrames ==
  Frames(Datetimes @@ [trip_duration |-> "float"],
         [started_at : {Dt(0)},
          ended_at : {Dt(600), Dt(86401)},
          trip_duration : {Null, Flt(59), Flt(60), Flt(86400), Flt(86401)}])

\* the full set of columns of a Divvy file
DivvyFrames ==
  Frames([ride_id |-> "str", rideable_type |-> "str"] @@ Datetimes @@
         [start_station_name |-> "str", start_station_id |-> "str",
          end_station_name |-> "str", end_station_id |-> "str",
          start_lat |-> "float", start_lng |-> "float",
          end_lat |-> "float", end_lng |-> "float", member_casual |-> "str"],
         [ride_id : {Str("R1"), Str("R2")},
          rideable_type : {Str("Electric_Bike")},
          started_at : {Dt(0)},
          ended_at : {Dt(0), Dt(600)},
          start_station_name : {Null},
          start_station_id : {Str("13022")},
          end_station_name : {Str("Clark St")},
          end_station_id : {Null},
          start_lat : {Flt(420)},
          start_lng : {Flt(-876), Flt(-860)},
          end_lat : {Flt(420)},
          end_lng : {Flt(-876)},
          member_casual : {Str("Casual")}])

\* frames of good trips, surplus copies of the first of them, and trips that
\* end when they start: up to MaxCopies of each
RideIds == << "R1", "R2", "R3", "R4", "R5", "R6", "R7", "R8" >>
Trip(i, secs) == [ride_id |-> Str(RideIds[i]), started_at |-> Dt(0), ended_at |-> Dt(secs)]
MaxCopies == 2

AccountingFrames ==
  { TripFile([ride_id |-> "str"] @@ Datetimes,
              [i \in 1..g |-> Trip(i, 600)]
                \o [i \in 1..d |-> Trip(1, 600)]
                \o [i \in 1..t |-> Trip(g + i, 0)]) :
      g \in 1..MaxCopies, d \in 0..MaxCopies, t \in 0..MaxCopies }

Inputs ==
  TimesFrames \cup KeyedFrames \cup TierFrames \cup GeoFrames \cup LatOnlyFrames
    \cup TextTimeFrames \cup TextTimeDurationFrames \cup MixedTimeFrames
    \cup StationFrames \cup OwnDurationFrames \cup DivvyFrames \cup AccountingFrames

\* the arguments of calculate_ride_cost: whole minutes from one below zero
\* to MaxDuration and two half minutes, user types and bike types in several
\* spellings, the years of the table and one year on either side
MaxDuration == 70
MaxYear == 2026

DurationSamples ==
  { float(m) : m \in -1..MaxDuration }
    \cup { float_literal(105, 10), float_literal(605, 10) }
UserTypes == {"casual", "member", "Casual"}
BikeTypes == {"classic_bike", "electric_bike", "Electric_Bike", "ELECTRIC",
              "docked_bike", "electric_scooter"}
Years == 2019..MaxYear

CostCalls ==
  [duration_minutes : DurationSamples, user_type : UserTypes,
   bike_type : BikeTypes, year : Years]

\* The trips handed to the feature and pricing stages: each carries its
\* duration in minutes. A frame holds at most MaxTrips of the trips below:
\* two members on classic bikes in June 2024, a casual rider under the ride
\* id of the first, a "Member" in the spelling of the raw files on the
\* holiday of July 4, a member in 2026, and a trip that ends when it starts.
MaxTrips == 2

TripRow(ride_id, rideable_type, member_casual, started_at, seconds) ==
  [ride_id |-> Str(ride_id), rideable_type |-> Str(rideable_type),
   member_casual |-> Str(member_casual), started_at |-> Dt(started_at),
   ended_at |-> Dt(started_at + seconds), duration_minutes |-> Flt(seconds)]

TripRows ==
  { TripRow("R1", "classic_bike", "member", 0, 4200),
    TripRow("R2", "classic_bike", "member", 0, 4200),
    TripRow("R1", "electric_bike", "casual", 0, 600),
    TripRow("R2", "Electric_Bike", "Member", 1641600, 2700),
    TripRow("R1", "electric_bike", "member", 48902400, 4200),
    TripRow("R2", "classic_bike", "member", 0, 0) }

\* three trips of one morning in June 2024: two casual riders for 10 minutes
\* on a classic and on an electric bike, and a member for 70 minutes on an
\* electric bike
MorningTrips ==
  << TripRow("R1", "classic_bike", "casual", 0, 600),
     TripRow("R2", "electric_bike", "casual", 0, 600),
     TripRow("R3", "electric_bike", "member", 0, 4200) >>

TripFrames ==
  { TripFile([ride_id |-> "str", rideable_type |-> "str"] @@ Datetimes @@
               [member_casual |-> "str", duration_minutes |-> "float"],
              rs) :
      rs \in UNION { [1..n -> TripRows] : n \in 0..MaxTrips } \cup {MorningTrips} }

\* the one trip priced beside the dataset: a year before the table
TripCalls ==
  { [duration_minutes |-> float(70), user_type |-> "member",
     bike_type |-> "classic_bike", year |-> 2019] }

\* The datasets of the feature extractor. At(d, hour, second) is the
\* datetime of the date d at hour:00:00 plus second.
At(d, hour, second) ==
  (days_from_civil(d.year, d.month, d.day) - 19889) * 86400
    + hour * 3600 + second - 28800

Hours == 0..23

\* the 15th of every month of 2024 and a week with its seven weekdays
CalendarDays ==
  { Date(2024, m, 15) : m \in 1..12 } \cup { Date(2024, 6, d) : d \in 10..16 }

\* January 1, July 4, December 25 and the week of the fourth Thursday of
\* November, in the years of the holiday table and around them
HolidaySeasonDays ==
  { Date(y, md[1], md[2]) :
      y \in 2019..MaxYear,
      md \in {<<1, 1>>, <<7, 4>>, <<12, 25>>} \cup { <<11, d>> : d \in 21..28 } }

\* every hour of a Friday at its first and last second, the days above at
\* 13:00, the holiday seasons at midnight, and the seconds around a holiday
FeatureStarts ==
  { At(Date(2024, 6, 14), h, sec) : h \in Hours, sec \in {0, 3599} }
    \cup { At(d, 13, 0) : d \in CalendarDays }
    \cup { At(d, 0, 0) : d \in HolidaySeasonDays }
    \cup { At(Date(2024, 7, 3), 23, 3599), At(Date(2024, 7, 4), 23, 3599),
           At(Date(2024, 7, 5), 0, 0) }

\* one trip with its start only
StartFrames ==
  { TripFile([started_at |-> "datetime"], << [started_at |-> c] >>) :
      c \in {Null} \cup { Dt(t) : t \in FeatureStarts } }

\* the durations around the thresholds of 5, 15, 45 and 120 minutes
DurationSeconds ==
  { 0, 60, 299, 300, 301, 899, 900, 901, 2699, 2700, 2701, 7199, 7200, 7201,
    86400 }

\* one trip that starts on 2024-06-15 at 08:00:00, with its end
DurationFrames ==
  { TripFile(Datetimes, << [started_at |-> Dt(0), ended_at |-> c] >>) :
      c \in {Null} \cup { Dt(s) : s \in DurationSeconds } }

\* two trips: their months and hours differ
PairFrames ==
  { TripFile([started_at |-> "datetime"],
              << [started_at |-> Dt(At(Date(2024, 8, 15), 12, 0))],
                 [started_at |-> Dt(At(Date(2024, m, 15), h, 0))] >>) :
      m \in {3, 8}, h \in {0, 12} }

\* datasets without a start column, without an end column, and with texts
PartialFrames ==
  { TripFile([ended_at |-> "datetime"], << [ended_at |-> Dt(600)] >>),
    TripFile(EmptyDict, << >>),
    TripFile([started_at |-> "str", ended_at |-> "str"],
             << [started_at |-> Str("2024-06-15 08:00:00"),
                 ended_at |-> Str("2024-06-15 08:10:00")] >>),
    TripFile([started_at |-> "datetime", ended_at |-> "str"],
             << [started_at |-> Dt(0), ended_at |-> Str("2024-06-15 08:10:00")] >>) }

FeatureFrames == StartFrames \cup DurationFrames \cup PairFrames \cup PartialFrames

\* The daily series of the lag features: up to MaxDays rows with a date
\* (null, 2024-06-15 or the day after) and the count of the trips of the day.
MaxDays == 3

SeriesDays == {Null, DateCell(19889), DateCell(19890)}
SeriesCounts == {Int64(1), Int64(4)}

SeriesFrames ==
  { DataFrame(<< "date", "count" >>, [date |-> "date", count |-> "int64"], rs) :
      rs \in UNION { [1..n -> [date : SeriesDays, count : SeriesCounts]] :
                       n \in 0..MaxDays } }
    \cup { DataFrame(<< "count" >>, [count |-> "int64"], << [count |-> Int64(1)] >>) }

\* the period lists: the default, and lists with periods up to the length
\* of the series
PeriodLists == { <<1, 7, 30>>, <<1, 2>>, <<3, 2>> }

LagCalls ==
  { [value_col |-> "count", date_col |-> "date", periods |-> ps] :
      ps \in PeriodLists }

\* The uses of the loaders: the function, the source, the state of the
\* file, and what the with-block does with the frame.
LoaderFunctions == {"load_dataset", "lazy_load_dataset"}
Sources == {"processed", "interim", "raw", "weather"}
Files == {"readable", "missing", "corrupt"}
Bodies == {"returns", "KeyError", "FileNotFoundError", "KeyboardInterrupt"}

LoaderUses ==
  [fn : LoaderFunctions, source : Sources, file : Files, body : Bodies,
   pc : {"enter"}, at : {""}, yields : {<< >>}, raised : {""}]

\* ------------------------------------------------------ the state machine
\* A caller holds a dataset `data`, and validates it, cleans it (the cleaned
\* frame replaces it, `prev` keeps the frame the last completed run was given)
\* and asks for the cleaning report of (prev, data).
VARIABLES data, prev, runs, last, report, validation,
          cleaner, extractor, pricing_rules, call, quote, metrics, loader

vars == << data, prev, runs, last, report, validation,
          cleaner, extractor, pricing_rules, call, quote, metrics, loader >>

\* the state of the three components
components == << cleaner, extractor, pricing_rules >>
\* the arguments and the results of the calls on the pricing model
economics == << call, quote, metrics >>

\* no dataset is being loaded
NotLoading == [pc |-> "idle"]

\* the components as their constructors leave them
Constructed ==
  /\ cleaner = DataCleaner_init
  /\ extractor = TemporalFeatureExtractor_init
  /\ pricing_rules = load_pricing_rules
  /\ quote = << >>
  /\ metrics = << >>
  /\ loader = NotLoading

Init ==
  /\ data \in Inputs
  /\ prev = data
  /\ runs = 0
  /\ last = [op |-> "load", raised |-> "", stage |-> ""]
  /\ report = << >>
  /\ validation = << >>
  /\ Constructed
  /\ call = << >>

\* clean_trip_data(data) returns
Clean ==
  /\ runs < MaxRuns
  /\ \E out \in clean_trip_data(data) :
       /\ out.raised = ""
       /\ data' = out.df
       /\ prev' = data
       /\ runs' = runs + 1
       /\ last' = [op |-> "clean", raised |-> "", stage |-> ""]
       /\ report' = << >>
       /\ validation' = << >>
       /\ UNCHANGED << components, economics, loader >>

\* clean_trip_data(data) raises
CleanRaises ==
  /\ runs < MaxRuns
  /\ \E out \in clean_trip_data(data) :
       /\ out.raised # ""
       /\ last' = [op |-> "clean", raised |-> out.raised, stage |-> out.stage]
       /\ UNCHANGED << data, prev, runs, report, validation, components, economics, loader >>

\* generate_cleaning_report(prev, data)
Report ==
  /\ LET out == generate_cleaning_report(prev, data)
     IN  /\ report' = out.report
         /\ last' = [op |-> "report", raised |-> out.raised, stage |-> ""]
  /\ UNCHANGED << data, prev, runs, validation, components, economics, loader >>

\* validate_data(data)
Validate ==
  /\ LET out == validate_data(data)
     IN  /\ validation' = out.report
         /\ last' = [op |-> "validate", raised |-> out.raised, stage |-> ""]
  /\ UNCHANGED << data, prev, runs, report, components, economics, loader >>

Next == Clean \/ CleanRaises \/ Report \/ Validate

Spec == Init /\ [][Next]_vars

\* ------------------------------------------- the pricing of a single trip
\* A session that holds no dataset and prices one trip: the arguments of the
\* call are drawn from CostCalls.
NoData == DataFrame(<< >>, EmptyDict, << >>)

CostInit ==
  /\ data = NoData
  /\ prev = data
  /\ runs = 0
  /\ last = [op |-> "load", raised |-> "", stage |-> ""]
  /\ report = << >>
  /\ validation = << >>
  /\ Constructed
  /\ call \in { << c >> : c \in CostCalls }

\* calculate_ride_cost(call)
Cost ==
  /\ call # << >>
  /\ LET c == call[1]
     IN  /\ quote' = << calculate_ride_cost(pricing_rules, c.duration_minutes,
                                            c.user_type, c.bike_type, c.year) >>
         /\ pricing_rules' = pricing_rules_after_cost(pricing_rules, c.year)
  /\ last' = [op |-> "cost", raised |-> "", stage |-> ""]
  /\ UNCHANGED << data, prev, runs, report, validation, cleaner, extractor, call, metrics, loader >>

CostNext == Cost

CostSpec == CostInit /\ [][CostNext]_vars


\* ------------------------------------------------ the pipeline on a dataset
\* A session on a dataset of at most one trip: it may be validated, cleaned,
\* given its time features and priced, in any order.
PipelineFrames == { df \in TripFrames : height(df) <= 1 }

PipelineInit ==
  /\ data \in PipelineFrames
  /\ prev = data
  /\ runs = 0
  /\ last = [op |-> "load", raised |-> "", stage |-> ""]
  /\ report = << >>
  /\ validation = << >>
  /\ Constructed
  /\ call \in { << c >> : c \in TripCalls }

\* extract_time_features(data)
Extract ==
  /\ LET out == extract_time_features(extractor, data, "started_at")
     IN  /\ data' = IF out.raised = "" THEN out.df ELSE data
         /\ last' = [op |-> "extract", raised |-> out.raised, stage |-> out.stage]
  /\ UNCHANGED << prev, runs, report, validation, components, economics, loader >>

\* calculate_revenue_metrics(data)
RevenueMetrics ==
  /\ LET out == calculate_revenue_metrics(pricing_rules, data)
     IN  /\ metrics' = out.report
         /\ last' = [op |-> "revenue_metrics", raised |-> out.raised, stage |-> ""]
         /\ pricing_rules' = IF out.raised = ""
                             THEN pricing_rules_after_costs(pricing_rules, data.rows)
                             ELSE pricing_rules
  /\ UNCHANGED << data, prev, runs, report, validation, cleaner, extractor, call, quote, loader >>

\* calculate_subscription_revenue(data)
SubscriptionRevenue ==
  /\ LET out == calculate_subscription_revenue(data)
     IN  /\ metrics' = out.report
         /\ last' = [op |-> "subscription_revenue", raised |-> out.raised, stage |-> ""]
  /\ UNCHANGED << data, prev, runs, report, validation, components, call, quote, loader >>

\* calculate_kpis(data)
Kpis ==
  /\ LET out == calculate_kpis(pricing_rules, data)
     IN  /\ metrics' = out.report
         /\ last' = [op |-> "kpis", raised |-> out.raised, stage |-> ""]
         /\ pricing_rules' = IF out.raised = ""
                             THEN pricing_rules_after_costs(pricing_rules, data.rows)
                             ELSE pricing_rules
  /\ UNCHANGED << data, prev, runs, report, validation, cleaner, extractor, call, quote, loader >>

PipelineNext ==
  \/ Clean \/ CleanRaises \/ Validate \/ Extract \/ Cost
  \/ RevenueMetrics \/ SubscriptionRevenue \/ Kpis

PipelineSpec == PipelineInit /\ [][PipelineNext]_vars


\* ------------------------------------- the features and metrics of a dataset
\* A session that gives a dataset of trips its time features and computes
\* the revenue metrics, the subscription revenue and the KPIs.
EconomicsNext == Extract \/ RevenueMetrics \/ SubscriptionRevenue \/ Kpis

EconomicsInit ==
  /\ data \in TripFrames
  /\ prev = data
  /\ runs = 0
  /\ last = [op |-> "load", raised |-> "", stage |-> ""]
  /\ report = << >>
  /\ validation = << >>
  /\ Constructed
  /\ call \in { << c >> : c \in TripCalls }

EconomicsSpec == EconomicsInit /\ [][EconomicsNext]_vars

\* ------------------------------------------------ the features of a dataset
\* A session on a dataset that is given its features: the time features, the
\* duration features, the cyclical and the interaction features one by one,
\* or all of them by create_all_temporal_features.
FeaturesInit ==
  /\ data \in FeatureFrames
  /\ prev = data
  /\ runs = 0
  /\ last = [op |-> "load", raised |-> "", stage |-> ""]
  /\ report = << >>
  /\ validation = << >>
  /\ Constructed
  /\ call = << >>

\* calculate_trip_duration_features(data)
DurationFeatures ==
  /\ LET out == calculate_trip_duration_features(extractor, data,
                                                 "started_at", "ended_at")
     IN  /\ data' = IF out.raised = "" THEN out.df ELSE data
         /\ last' = [op |-> "duration_features", raised |-> out.raised,
                     stage |-> out.stage]
  /\ UNCHANGED << prev, runs, report, validation, components, economics, loader >>

\* create_cyclical_features(data)
CyclicalFeatures ==
  /\ data' = create_cyclical_features(extractor, data)
  /\ last' = [op |-> "cyclical_features", raised |-> "", stage |-> ""]
  /\ UNCHANGED << prev, runs, report, validation, components, economics, loader >>

\* create_interaction_features(data)
InteractionFeatures ==
  /\ data' = create_interaction_features(extractor, data)
  /\ last' = [op |-> "interaction_features", raised |-> "", stage |-> ""]
  /\ UNCHANGED << prev, runs, report, validation, components, economics, loader >>

\* create_all_temporal_features(data, 'started_at', end_datetime_col, ...)
CreateAll ==
  /\ \E end_datetime_col \in {"ended_at", ""},
        include_cyclical \in BOOLEAN, include_interactions \in BOOLEAN :
       LET out == create_all_temporal_features(extractor, data, "started_at",
                                               end_datetime_col, include_cyclical,
                                               include_interactions)
       IN  /\ data' = IF out.raised = "" THEN out.df ELSE data
           /\ last' = [op |-> IF end_datetime_col = ""
                              THEN "create_all" ELSE "create_all_with_end",
                       raised |-> out.raised, stage |-> out.stage]
  /\ UNCHANGED << prev, runs, report, validation, components, economics, loader >>

FeaturesNext ==
  \/ Extract \/ DurationFeatures \/ CyclicalFeatures \/ InteractionFeatures
  \/ CreateAll

FeaturesSpec == FeaturesInit /\ [][FeaturesNext]_vars

\* ---------------------------------------------- the lags of a daily series
\* A session on a daily series that is given its lag, lead and rolling
\* columns; prev keeps the series the last call was given.
LagInit ==
  /\ data \in SeriesFrames
  /\ prev = data
  /\ runs = 0
  /\ last = [op |-> "load", raised |-> "", stage |-> ""]
  /\ report = << >>
  /\ validation = << >>
  /\ Constructed
  /\ call \in { << c >> : c \in LagCalls }

\* create_lag_features(data, call) returns
LagFeatures ==
  /\ runs < MaxRuns
  /\ \E out \in create_lag_features(extractor, data, call[1].value_col,
                                    call[1].date_col, call[1].periods) :
       /\ out.raised = ""
       /\ data' = out.df
       /\ prev' = data
       /\ runs' = runs + 1
       /\ last' = [op |-> "lag_features", raised |-> "", stage |-> ""]
  /\ UNCHANGED << report, validation, components, economics, loader >>

\* create_lag_features(data, call) raises
LagFeaturesRaises ==
  /\ \E out \in create_lag_features(extractor, data, call[1].value_col,
                                    call[1].date_col, call[1].periods) :
       /\ out.raised # ""
       /\ last' = [op |-> "lag_features", raised |-> out.raised, stage |-> out.stage]
  /\ UNCHANGED << data, prev, runs, report, validation, components, economics, loader >>

LagNext == LagFeatures \/ LagFeaturesRaises

LagSpec == LagInit /\ [][LagNext]_vars

\* ------------------------------------------------- the forward pipeline
\* A session on a dataset of trips with their timestamps, some with a
\* duration column of their own: it is cleaned and given all its features.
ForwardFrames == { df \in TimesFrames \cup OwnDurationFrames : height(df) <= 1 }

ForwardInit ==
  /\ data \in ForwardFrames
  /\ prev = data
  /\ runs = 0
  /\ last = [op |-> "load", raised |-> "", stage |-> ""]
  /\ report = << >>
  /\ validation = << >>
  /\ Constructed
  /\ call = << >>

ForwardNext == Clean \/ CleanRaises \/ CreateAll

ForwardSpec == ForwardInit /\ [][ForwardNext]_vars

\* ------------------------------------------------- the use of a loader
\* with load_dataset(name, source) as df: <body>.  The with statement enters
\* the context manager, which runs the generator to its first yield, runs
\* its body with the frame, and leaves the context manager with the outcome
\* of the body.
LoaderInit ==
  /\ data = NoData
  /\ prev = data
  /\ runs = 0
  /\ last = [op |-> "load", raised |-> "", stage |-> ""]
  /\ report = << >>
  /\ validation = << >>
  /\ cleaner = DataCleaner_init
  /\ extractor = TemporalFeatureExtractor_init
  /\ pricing_rules = load_pricing_rules
  /\ call = << >>
  /\ quote = << >>
  /\ metrics = << >>
  /\ loader \in LoaderUses

session == << data, prev, runs, last, report, validation,
             cleaner, extractor, pricing_rules, call, quote, metrics >>

\* contextmanager.__enter__: next(gen)
Enter ==
  /\ loader.pc = "enter"
  /\ LET g == gen_start(loader.fn, loader.source, loader.file)
     IN  loader' = IF g.raised # ""
                   THEN [loader EXCEPT !.pc = "done", !.raised = g.raised]
                   ELSE [loader EXCEPT !.pc = "body", !.at = g.at,
                                       !.yields = << yield_value(g.at) >>]
  /\ UNCHANGED session

\* the body of the with statement ends, contextmanager.__exit__
Exit ==
  /\ loader.pc = "body"
  /\ LET x == context_exit(loader.at, loader.body)
     IN  loader' = [loader EXCEPT !.pc = "done", !.raised = x.raised,
                                  !.yields = @ \o x.yields]
  /\ UNCHANGED session

LoaderNext == Enter \/ Exit

LoaderSpec == LoaderInit /\ [][LoaderNext]_vars

\* ------------------------------------------------- vocabulary of the claims
Rows(df) == { df.rows[i] : i \in 1..Len(df.rows) }
BagOf(rows) == [r \in { rows[i] : i \in 1..Len(rows) } |->
                  Cardinality({ i \in 1..Len(rows) : rows[i] = r })]
Copies(df, r) == Cardinality({ i \in 1..Len(df.rows) : df.rows[i] = r })
Has(df, col) == col \in DOMAIN df.dtype
HasTimes(df) == Has(df, "started_at") /\ Has(df, "ended_at")
LatitudeColumns(df) == DOMAIN df.dtype \cap {"start_lat", "end_lat"}
LongitudeColumns(df) == DOMAIN df.dtype \cap {"start_lng", "end_lng"}

\* the position of a timestamp cell in the order of its column: the time of
\* a datetime, the lexicographic rank of a text
Position(c) == IF c.k = "str" THEN LexRank[c.s] ELSE c.n

EndsAfterStart(r) ==
  /\ r["started_at"].k # "null"
  /\ r["ended_at"].k # "null"
  /\ r["started_at"].k = r["ended_at"].k
  /\ Position(r["ended_at"]) > Position(r["started_at"])

\* 1 <= minutes <= 1440 for a duration cell, which holds minutes * 60
OneMinuteToOneDay(c) == c.k = "float" /\ 60 <= c.n /\ c.n <= 86400

\* row r of frame df has no defect that a filter of the cleaner removes
Sound(df, r) ==
  /\ HasTimes(df) => EndsAfterStart(r)
  /\ Has(df, "trip_duration") => OneMinuteToOneDay(r["trip_duration"])
  /\ (HasTimes(df) /\ ~Has(df, "trip_duration")) =>
        /\ r["ended_at"].k = "datetime"
        /\ 60 <= r["ended_at"].n - r["started_at"].n
        /\ r["ended_at"].n - r["started_at"].n <= 86400
  /\ (LatitudeColumns(df) # {} /\ LongitudeColumns(df) # {}) =>
        /\ \A c \in LatitudeColumns(df) :
             r[c].k = "float" /\ 415 <= r[c].n /\ r[c].n <= 425
        /\ \A c \in LongitudeColumns(df) :
             r[c].k = "float" /\ -880 <= r[c].n /\ r[c].n <= -870

\* ------------------------------------------------------------------ claims
\* C1: cleaning is a fixed point: a second clean run returns the rows of the
\* first, the same in number and in content.
C1_CleanIsFixedPoint ==
  runs >= 2 => /\ height(data) = height(prev)
               /\ BagOf(data.rows) = BagOf(prev.rows)

\* C2: every row of a cleaned frame ends after it starts and has a duration
\* (the duration column the cleaner found or derived) of 1 to 1440 minutes,
\* both ends included; a trip of exactly 1 minute or exactly 1440 minutes is
\* kept.
C2_EndAfterStartDurationInRange ==
  runs >= 1 =>
    /\ \A r \in Rows(data) :
         /\ HasTimes(data) => EndsAfterStart(r)
         /\ Has(data, "trip_duration") => OneMinuteToOneDay(r["trip_duration"])
         /\ Has(data, "duration_minutes") =>
              /\ OneMinuteToOneDay(r["duration_minutes"])
              /\ r["duration_minutes"].n = r["ended_at"].n - r["started_at"].n
    /\ HasTimes(data) => (Has(data, "trip_duration") \/ Has(data, "duration_minutes"))
    /\ (prev.dtype = Datetimes) =>
         \A r \in Rows(prev) :
           ( /\ r["started_at"].k = "datetime"
             /\ r["ended_at"].k = "datetime"
             /\ 60 <= r["ended_at"].n - r["started_at"].n
             /\ r["ended_at"].n - r["started_at"].n <= 86400 )
           => \E q \in Rows(data) :
                q["started_at"] = r["started_at"] /\ q["ended_at"] = r["ended_at"]

\* C2 witness: a clean run removed a row and kept a trip of exactly 1 minute
\* or exactly 1440 minutes.
C2_Witness ==
  /\ runs = 1
  /\ height(data) < height(prev)
  /\ Has(data, "duration_minutes")
  /\ \E r \in Rows(data) : r["duration_minutes"].n \in {60, 86400}

\* C3: in a cleaned frame every latitude and longitude column of the input
\* is non-null and inside the Chicago box, bounds included.
C3_CoordinatesInsideChicago ==
  runs >= 1 =>
    \A r \in Rows(data) :
      /\ \A c \in LatitudeColumns(prev) :
           r[c].k = "float" /\ 415 <= r[c].n /\ r[c].n <= 425
      /\ \A c \in LongitudeColumns(prev) :
           r[c].k = "float" /\ -880 <= r[c].n /\ r[c].n <= -870

\* C4: a cleaned frame never holds two identical rows.
C4_NoTwoIdenticalRows ==
  runs >= 1 => \A r \in Rows(data) : Copies(data, r) = 1

\* C5: when the frame has a ride_id column, no two rows of the cleaned frame
\* share a ride_id, and a ride_id all of whose input rows pass the filters
\* is in the cleaned frame exactly once.
C5_OneRowPerRideId ==
  (runs >= 1 /\ Has(prev, "ride_id")) =>
    /\ \A i, j \in 1..height(data) :
         i # j => data.rows[i]["ride_id"] # data.rows[j]["ride_id"]
    /\ \A r \in Rows(prev) :
         (\A q \in Rows(prev) : q["ride_id"] = r["ride_id"] => Sound(prev, q))
         => Cardinality({ k \in 1..height(data) :
                            data.rows[k]["ride_id"] = r["ride_id"] }) = 1

\* C5 witness: two different sound rows with one ride_id went into a clean
\* run.
C5_Witness ==
  /\ runs = 1
  /\ Has(prev, "ride_id")
  /\ \E r, q \in Rows(prev) :
       /\ r # q
       /\ r["ride_id"] = q["ride_id"]
       /\ Sound(prev, r)
       /\ Sound(prev, q)
  /\ height(data) >= 1

\* every ordering of a sequence of rows
Orderings(rows) ==
  { [i \in 1..Len(rows) |-> rows[p[i]]] :
      p \in { f \in [1..Len(rows) -> 1..Len(rows)] :
                \A i, j \in 1..Len(rows) : i # j => f[i] # f[j] } }

\* C6: the rows clean returns do not depend on the order of the input rows
\* nor on the row dedup retains of a duplicate group: every ordering and
\* every retained representative gives the rows of this run.
C6_ResultIndependentOfOrderAndRepresentative ==
  runs >= 1 =>
    \A p \in Orderings(prev.rows) :
      \A out \in clean_trip_data([prev EXCEPT !.rows = p]) :
        /\ out.raised = ""
        /\ BagOf(out.df.rows) = BagOf(data.rows)

\* a start or end column that is text
TextTimeColumns(df) ==
  { c \in DOMAIN df.dtype \cap {"started_at", "ended_at"} : df.dtype[c] = "str" }

\* C7: clean_trip_data and generate_cleaning_report return without raising
\* for every dataset, the empty one included (stated for the frames whose
\* timestamps need no parsing).
C7_CleanAndReportNeverRaise ==
  (last.op \in {"clean", "report"} /\ TextTimeColumns(data) = {}) => last.raised = ""

\* a text timestamp column with a value that is not a timestamp
Unparseable(df) ==
  { c \in TextTimeColumns(df) :
      \E r \in Rows(df) : r[c].k = "str" /\ r[c].s \notin DOMAIN ParseTable }

\* C8: when a start or end column cannot be coerced to a timestamp, the
\* clean run still goes through every later stage and returns.
C8_ParseFailureIsRecovered ==
  (last.op = "clean" /\ Unparseable(data) # {}) => last.raised = ""

\* the surplus copies of a frame, and its distinct rows that do not end
\* after they start
SurplusCopies(df) == height(df) - Cardinality(Rows(df))
NotAfterStart(df) ==
  { r \in Rows(df) : r["ended_at"].n <= r["started_at"].n }

\* the only defects of df are surplus exact copies and rows with
\* ended_at <= started_at
OnlyCopiesAndNegatives(df) ==
  /\ HasTimes(df)
  /\ \A r \in Rows(df) :
       /\ r["started_at"].k = "datetime"
       /\ r["ended_at"].k = "datetime"
       /\ r \in NotAfterStart(df) \/ Sound(df, r)
  /\ Has(df, "ride_id") =>
       \A r, q \in Rows(df) : r # q => r["ride_id"] # q["ride_id"]

\* C9: a frame of N rows whose only defects are d surplus copies and t rows
\* with ended_at <= started_at is cleaned to N - d - t rows; the report has
\* removed_rows = original_size - cleaned_size = d + t and
\* data_quality_score = cleaned_size / original_size * 100.
C9_RowAccounting ==
  (runs >= 1 /\ OnlyCopiesAndNegatives(prev)) =>
    LET N == height(prev)
        d == SurplusCopies(prev)
        t == Cardinality(NotAfterStart(prev))
    IN  /\ height(data) = N - d - t
        /\ report # << >> =>
             /\ report[1].original_size = N
             /\ report[1].cleaned_size = N - d - t
             /\ report[1].removed_rows = d + t
             /\ report[1].removed_rows =
                  report[1].original_size - report[1].cleaned_size
             /\ report[1].data_quality_score = Percent(N - d - t, N)

\* C9 witness: a report on a run that removed surplus copies and rows with
\* ended_at <= started_at and kept the rest.
C9_Witness ==
  /\ runs = 1
  /\ report # << >>
  /\ OnlyCopiesAndNegatives(prev)
  /\ SurplusCopies(prev) >= 1
  /\ Cardinality(NotAfterStart(prev)) >= 1
  /\ height(data) >= 2

\* C10: validate_data on a frame of zero rows returns, with total_rows = 0,
\* the empty-dataset finding as the only issue, no warning and no null
\* summary.
C10_EmptyDatasetShortCircuits ==
  (last.op = "validate" /\ height(data) = 0) =>
    /\ last.raised = ""
    /\ Len(validation) = 1
    /\ validation[1].total_rows = 0
    /\ Len(validation[1].issues) = 1
    /\ validation[1].issues[1].kind = "empty"
    /\ validation[1].warnings = << >>
    /\ DOMAIN validation[1].summary = {}

\* C10 witness: an empty frame that lacks the required columns was validated.
C10_Witness ==
  /\ last.op = "validate"
  /\ height(data) = 0
  /\ ~Has(data, "started_at")
  /\ validation # << >>

\* the findings of kind k in a list of findings
FindingsOf(list, k) == { list[i] : i \in { j \in 1..Len(list) : list[j].kind = k } }

\* the number of rows of df beyond the first of every ride_id
SurplusRideIds(df) ==
  height(df) - Cardinality({ r["ride_id"] : r \in Rows(df) })

\* the row numbers of df whose end is not after its start
EndsNotAfterStart(df) ==
  { i \in 1..height(df) :
      LET r == df.rows[i]
      IN  /\ r["started_at"].k # "null"
          /\ r["ended_at"].k # "null"
          /\ Position(r["ended_at"]) <= Position(r["started_at"]) }

\* the row numbers of df whose coordinate c is outside the Chicago box
OutsideChicago(df, c) ==
  { i \in 1..height(df) :
      LET x == df.rows[i][c]
      IN  /\ x.k = "float"
          /\ IF c \in {"start_lat", "end_lat"}
             THEN x.n < 415 \/ x.n > 425
             ELSE x.n < -880 \/ x.n > -870 }

\* the findings of the validation of data are sorted by severity: issues
\* hold only the empty-dataset and the missing-required-column findings;
\* duplicate ride ids, rows with ended_at <= started_at and coordinates
\* outside Chicago are warnings, each with its count; the null summary and
\* every remaining check are made also when a required column is missing
ClassifiedBySeverity ==
  /\ LET v == validation[1]
         missing == {"started_at", "ended_at", "member_casual"} \ DOMAIN data.dtype
     IN  /\ \A i \in 1..Len(v.issues) : v.issues[i].kind \in {"empty", "missing_columns"}
         /\ \A i \in 1..Len(v.warnings) :
              v.warnings[i].kind \in {"duplicates", "negative", "out_of_bounds"}
         /\ height(data) > 0 =>
              /\ FindingsOf(v.issues, "empty") = {}
              /\ IF missing = {}
                 THEN v.issues = << >>
                 ELSE /\ Len(v.issues) = 1
                      /\ { v.issues[1].cols[j] : j \in 1..Len(v.issues[1].cols) } = missing
              /\ DOMAIN v.summary = {"null_counts"}
              /\ DOMAIN v.summary.null_counts =
                   { c \in DOMAIN data.dtype : \E r \in Rows(data) : r[c].k = "null" }
              /\ IF Has(data, "ride_id") /\ SurplusRideIds(data) > 0
                 THEN FindingsOf(v.warnings, "duplicates") =
                        { Finding("duplicates", << >>, "ride_id", SurplusRideIds(data)) }
                 ELSE FindingsOf(v.warnings, "duplicates") = {}
              /\ IF HasTimes(data) /\ EndsNotAfterStart(data) # {}
                 THEN FindingsOf(v.warnings, "negative") =
                        { Finding("negative", << >>, "", Cardinality(EndsNotAfterStart(data))) }
                 ELSE FindingsOf(v.warnings, "negative") = {}
              /\ FindingsOf(v.warnings, "out_of_bounds") =
                   { Finding("out_of_bounds", << >>, c, Cardinality(OutsideChicago(data, c))) :
                       c \in { c \in LatitudeColumns(data) \cup LongitudeColumns(data) :
                                 OutsideChicago(data, c) # {} } }

\* C11: validate_data never raises for a data-quality problem and sorts the
\* findings by severity: after every validate call, on whatever dataset, the
\* call has returned one result, whose issues hold only the empty-dataset
\* and the missing-required-column findings and whose warnings hold the
\* duplicate ride ids, the rows with ended_at <= started_at and the
\* coordinates outside Chicago, each with its count.
C11_ValidateClassifiesBySeverity ==
  last.op = "validate" =>
    /\ last.raised = ""
    /\ Len(validation) = 1
    /\ ClassifiedBySeverity

\* C11, the part that holds: every validate call that returns has sorted
\* its findings by severity.
C11_ClassifiedWhenReturned ==
  (last.op = "validate" /\ last.raised = "") =>
    /\ Len(validation) = 1
    /\ ClassifiedBySeverity

\* C11, the failing case: validate_data raised on a dataset whose start
\* column is a datetime column and whose end column is text that was not
\* parsed.
C11_RaisedOnTextEnd ==
  /\ last.op = "validate"
  /\ last.raised = "InvalidOperationError"
  /\ height(data) > 0
  /\ data.dtype["started_at"] = "datetime"
  /\ data.dtype["ended_at"] = "str"

\* C11 witness: a validated frame that lacks a required column and holds a
\* duplicate ride id and a row that ends when it starts: one issue, two
\* warnings and a null summary.
C11_Witness ==
  /\ last.op = "validate"
  /\ last.raised = ""
  /\ ~Has(data, "member_casual")
  /\ Has(data, "ride_id")
  /\ SurplusRideIds(data) > 0
  /\ EndsNotAfterStart(data) # {}
  /\ Len(validation[1].issues) = 1
  /\ Len(validation[1].warnings) = 2

\* ---------------------------------------------------- claims on the prices
TableYears == 2020..2025
Tiers == {"casual", "member"}
Bikes == {"classic_bike", "electric_bike"}

\* q is the price of d minutes under the entry e of the tariff table:
\* the unlock fee up to the free minutes, and beyond them the unlock fee
\* plus the per-minute rate for every minute over the free minutes, each
\* operation rounded to the nearest double and the result not rounded to
\* cents
IsPriceUnder(q, e, d) ==
  q = IF float_cmp(d, float(e.free_minutes)) <= 0
      THEN e.unlock_fee
      ELSE float_add(e.unlock_fee,
                     float_mul(float_sub(d, float(e.free_minutes)), e.per_minute))

\* the double next above a positive double a
next_up(a) == float_round(a.sign, BigAdd(a.mant, << 1 >>), a.exp, FALSE)

\* the trip of the pricing scenario: 70 minutes of a member on a classic
\* bike in 2024
IsScenarioCall(c) ==
  /\ c.duration_minutes = float(70) /\ c.user_type = "member"
  /\ c.bike_type = "classic_bike" /\ c.year = 2024

\* the price of a call of a table year in the normalised spelling follows
\* the formula, and the prices at the free minutes and one minute later
PriceFollowsFormula ==
  (last.op = "cost" /\ call[1].year \in TableYears
     /\ call[1].user_type \in Tiers /\ call[1].bike_type \in Bikes) =>
    LET c == call[1]
        e == load_pricing_rules[c.year][c.user_type][c.bike_type]
    IN  /\ Len(quote) = 1
        /\ IsPriceUnder(quote[1], e, c.duration_minutes)
        /\ c.duration_minutes = float(e.free_minutes) => quote[1] = e.unlock_fee
        /\ c.duration_minutes = float(e.free_minutes + 1) =>
             quote[1] = float_add(e.unlock_fee, e.per_minute)

ElectricSpellings == {"electric_bike", "Electric_Bike", "ELECTRIC", "electric_scooter"}

\* C12 as stated: for a year of the table and a tier and bike type in their
\* normalised spelling, the price is the unlock fee when the duration is at
\* most the free minutes and else the unlock fee plus (duration - free
\* minutes) x per-minute rate, unrounded; at exactly the free minutes it is
\* the unlock fee and one minute later the unlock fee plus one per-minute
\* rate; 70 minutes of a member on a classic bike in 2024 cost 1.66.
C12_SeventyMinutesCostExactly166 ==
  /\ PriceFollowsFormula
  /\ (last.op = "cost" /\ IsScenarioCall(call[1])) =>
       quote[1] = float_literal(166, 100)

\* C12, amended: the price follows the formula in double arithmetic with no
\* rounding to cents, the boundary prices are the unlock fee and the unlock
\* fee plus one per-minute rate, and 70 minutes of a member on a classic
\* bike in 2024 cost 10.0 * 0.166, the double next above 1.66.
C12_CostFormula ==
  /\ PriceFollowsFormula
  /\ (last.op = "cost" /\ IsScenarioCall(call[1])) =>
       /\ quote[1] = float_mul(float(10), float_literal(166, 1000))
       /\ quote[1] = next_up(float_literal(166, 100))

\* C12 witness: the 70 minutes of a member on a classic bike in 2024 were
\* priced, at a double that is not the double of 1.66.
C12_Witness ==
  /\ last.op = "cost"
  /\ IsScenarioCall(call[1])
  /\ float_cmp(quote[1], float_literal(166, 100)) = 1
  /\ float_cmp(quote[1], float_literal(1661, 1000)) = -1

\* C13: for every tier, bike type and year, the fallback years included, a
\* trip never costs less than a shorter one: d1 <= d2 gives
\* cost(d1) <= cost(d2), negative and zero durations included.
C13_CostMonotoneInDuration ==
  last.op = "cost" =>
    \A d2 \in DurationSamples :
      float_le(call[1].duration_minutes, d2) =>
        float_le(quote[1],
               calculate_ride_cost(pricing_rules, d2, call[1].user_type,
                                   call[1].bike_type, call[1].year))

\* C13 witness: a trip of a negative duration in a year before the table
\* was priced, and a longer trip costs more.
C13_Witness ==
  /\ last.op = "cost"
  /\ call[1].duration_minutes = float(-1)
  /\ call[1].year < 2020
  /\ call[1].user_type = "casual"
  /\ \E d2 \in DurationSamples :
       ~float_le(calculate_ride_cost(pricing_rules, d2, call[1].user_type,
                                     call[1].bike_type, call[1].year),
                 quote[1])

\* C14: a year outside the table (before 2020 or after 2025) is priced with
\* the row of 2025 and the call returns; a year from 2020 to 2025 is priced
\* with its own row.
C14_UnknownYearUsesLatestRow ==
  (last.op = "cost" /\ call[1].user_type \in Tiers /\ call[1].bike_type \in Bikes) =>
    LET c == call[1]
        row == IF c.year \in TableYears THEN c.year ELSE 2025
    IN  /\ last.raised = ""
        /\ Len(quote) = 1
        /\ IsPriceUnder(quote[1], load_pricing_rules[row][c.user_type][c.bike_type],
                        c.duration_minutes)

\* C14 witness: a trip of a year after the table was priced beyond its free
\* minutes, and the row of 2024 would have given another price.
C14_Witness ==
  /\ last.op = "cost"
  /\ call[1].year > 2025
  /\ call[1].user_type = "member"
  /\ call[1].bike_type = "classic_bike"
  /\ call[1].duration_minutes = float(70)
  /\ quote = << float_mul(float(10), float_literal(176, 1000)) >>

\* C15: a trip is priced as casual only when its user type is exactly
\* "casual" and as member for every other value, "Casual" included; as an
\* electric bike when its bike type contains "electric" in any letter case
\* and as a classic bike otherwise; after that the lookup finds an entry
\* for every year.
C15_TierAndBikeTypeNormalised ==
  last.op = "cost" =>
    LET c == call[1]
        row == IF c.year \in TableYears THEN c.year ELSE 2025
        tier == IF c.user_type = "casual" THEN "casual" ELSE "member"
        bike == IF c.bike_type \in ElectricSpellings THEN "electric_bike" ELSE "classic_bike"
    IN  /\ Len(quote) = 1
        /\ IsPriceUnder(quote[1], load_pricing_rules[row][tier][bike], c.duration_minutes)

\* C15 witness: 20 minutes of "Casual" on "ELECTRIC" in 2024 were priced as
\* a member on an electric bike: inside the 30 free minutes, at no cost.
C15_Witness ==
  /\ last.op = "cost"
  /\ call[1].user_type = "Casual"
  /\ call[1].bike_type = "ELECTRIC"
  /\ call[1].year = 2024
  /\ call[1].duration_minutes = float(20)
  /\ quote = << float(0) >>

\* --------------------------------------------------- claims on the metrics
\* the sum of the integers f[k] over the keys k of S
RECURSIVE SumOver(_, _)
SumOver(f, S) ==
  IF S = {} THEN 0
  ELSE LET k == CHOOSE k \in S : TRUE
       IN  f[k] + SumOver(f, S \ {k})

\* the price of the trip in row r under the tariff table
TripCost(r) ==
  calculate_ride_cost(load_pricing_rules, minutes(r["duration_minutes"]),
                      r["member_casual"].s, r["rideable_type"].s, r["year"].n)

\* the prices of the trips of df, in the order of its rows
TripCosts(df) == [i \in 1..height(df) |-> TripCost(df.rows[i])]

\* the keys of the mapping f in every order
GroupOrders(f) ==
  { o \in [1..Cardinality(DOMAIN f) -> DOMAIN f] : \A k \in DOMAIN f : \E i \in DOMAIN o : o[i] = k }

\* the sums of the revenues of the groups of a breakdown, added in every
\* order of the groups
GroupRevenueSums(breakdown) ==
  { float_sum([i \in DOMAIN o |-> breakdown[o[i]].revenue]) : o \in GroupOrders(breakdown) }

\* 2^-52, the distance from 1.0 to the next double
float_epsilon == [float(1) EXCEPT !.exp = @ - (Precision - 1)]

\* a and b differ by no more than the rounding of the n additions of a sum
\* of n prices that is b
AddsUpTo(a, b, n) ==
  LET d == float_sub(a, b)
  IN  float_le([d EXCEPT !.sign = 1], float_mul(float_mul(float(n), float_epsilon), b))

\* what calculate_revenue_metrics returns apart from the sums of the
\* revenues of the groups: the number of rides, the total and the average
\* price, the groups of either breakdown and their numbers of rides
RidesAndGroups ==
  (last.op = "revenue_metrics" /\ last.raised = "") =>
    LET m == metrics[1]
        n == height(data)
    IN  /\ m.total_rides = n
        /\ m.total_revenue = float_sum(TripCosts(data))
        /\ n > 0 => /\ Len(m.avg_ride_cost) = 1
                    /\ m.avg_ride_cost[1] = float_truediv(m.total_revenue, float(n))
        /\ DOMAIN m.user_metrics = { r["member_casual"] : r \in Rows(data) }
        /\ DOMAIN m.bike_metrics = { r["rideable_type"] : r \in Rows(data) }
        /\ \A breakdown \in {m.user_metrics, m.bike_metrics} :
             SumOver([k \in DOMAIN breakdown |-> breakdown[k].rides],
                     DOMAIN breakdown) = m.total_rides

\* C16 as stated: revenue_metrics returns total_rides = the number of rows,
\* total_revenue = the sum of the prices of the trips and avg_ride_cost =
\* total_revenue / total_rides; the breakdown by user type has one group for
\* every distinct value of member_casual and the breakdown by bike type one
\* for every distinct value of rideable_type; in either breakdown the rides
\* of the groups add up to total_rides and their revenues to total_revenue.
C16_GroupRevenuesSumToTotal ==
  /\ RidesAndGroups
  /\ (last.op = "revenue_metrics" /\ last.raised = "") =>
       \A breakdown \in {metrics[1].user_metrics, metrics[1].bike_metrics} :
         \A sum \in GroupRevenueSums(breakdown) : sum = metrics[1].total_revenue

\* C16, amended: as stated, except that the revenue of a group is the sum
\* of the prices of its trips in the order of the rows, so that the
\* revenues of the groups add up to total_revenue up to the rounding of
\* the additions, and not always to the same double.
C16_RevenueMetricsAddUp ==
  /\ RidesAndGroups
  /\ (last.op = "revenue_metrics" /\ last.raised = "") =>
       \A col \in {"member_casual", "rideable_type"} :
         LET breakdown == IF col = "member_casual" THEN metrics[1].user_metrics
                          ELSE metrics[1].bike_metrics
         IN  /\ \A k \in DOMAIN breakdown :
                  breakdown[k].revenue =
                    float_sum(SelectRows(TripCosts(data),
                                         { i \in 1..height(data) : data.rows[i][col] = k }))
             /\ \A sum \in GroupRevenueSums(breakdown) :
                  AddsUpTo(sum, metrics[1].total_revenue, height(data))

\* C16 witness: the metrics of three trips of two user types on two kinds of
\* bike, where the revenues of the two kinds add up to a double next to
\* total_revenue.
C16_Witness ==
  /\ last.op = "revenue_metrics"
  /\ last.raised = ""
  /\ metrics[1].total_rides = 3
  /\ Cardinality(DOMAIN metrics[1].user_metrics) = 2
  /\ Cardinality(DOMAIN metrics[1].bike_metrics) = 2
  /\ \E sum \in GroupRevenueSums(metrics[1].bike_metrics) :
       sum # metrics[1].total_revenue

\* count x 15 x 0.6, as the code multiplies: (count * 15.0) * 0.6
SubscriptionRevenueOf(count) ==
  float_mul(float_mul(float(count), float(15)), float_literal(6, 10))

\* count x 0.6
SubscribersOf(count) == float_mul(float(count), float_literal(6, 10))

\* the (year, month, ride id) of the rows of df that satisfy no condition
\* on the user type
MonthlyTripIds(df) ==
  { << r["year"], r["month"], r["ride_id"] >> : r \in Rows(df) }

\* the (year, month, ride id) of the rows of df whose user type is exactly
\* "member"
MonthlyMemberTripIds(df) ==
  { << r["year"], r["month"], r["ride_id"] >> :
      r \in { q \in Rows(df) : q["member_casual"] = Str("member") } }

\* C17 as stated: subscription_revenue = (the sum over every (year, month)
\* group of the trips of the dataset of the distinct trip ids of the group)
\* x 15 x 0.6 and estimated_subscribers = that count x 0.6.
C17_SubscriptionCountsEveryTrip ==
  (last.op = "subscription_revenue" /\ last.raised = "") =>
    /\ metrics[1].subscription_revenue =
         SubscriptionRevenueOf(Cardinality(MonthlyTripIds(data)))
    /\ metrics[1].estimated_subscribers = SubscribersOf(Cardinality(MonthlyTripIds(data)))

\* C17, amended: subscription_revenue = (the sum over every (year, month)
\* group of the trips whose user type is exactly "member" of the distinct
\* trip ids of the group) x 15 x 0.6 and estimated_subscribers = that
\* count x 0.6.
C17_SubscriptionCountsMemberTrips ==
  (last.op = "subscription_revenue" /\ last.raised = "") =>
    /\ metrics[1].subscription_revenue =
         SubscriptionRevenueOf(Cardinality(MonthlyMemberTripIds(data)))
    /\ metrics[1].estimated_subscribers =
         SubscribersOf(Cardinality(MonthlyMemberTripIds(data)))

\* C17 witness: the subscription revenue of a dataset with the trip of a
\* member and the trip of a casual rider: one subscriber-month, 9 dollars.
C17_Witness ==
  /\ last.op = "subscription_revenue"
  /\ last.raised = ""
  /\ \E r \in Rows(data) : r["member_casual"] = Str("casual")
  /\ \E r \in Rows(data) : r["member_casual"] = Str("member")
  /\ metrics[1].subscription_revenue = float(9)

\* C18: kpis returns total_revenue = ride revenue + subscription revenue,
\* ARPU = total_revenue / the number of distinct trip ids (0 when there is
\* none), LTV = ARPU x 40, CAC = 40, ROI = (LTV - CAC) / CAC x 100 and
\* ltv_cac_ratio = LTV / CAC; its ride_revenue and subscription_revenue are
\* the values of revenue_metrics and subscription_revenue on the dataset.
C18_KpisCompose ==
  (last.op = "kpis" /\ last.raised = "") =>
    LET k == metrics[1]
        users == Cardinality({ r["ride_id"] : r \in Rows(data) })
        forty == float(40)
    IN  /\ k.ride_revenue =
             calculate_revenue_metrics(load_pricing_rules, data).report[1].total_revenue
        /\ k.subscription_revenue =
             calculate_subscription_revenue(data).report[1].subscription_revenue
        /\ k.total_revenue = float_add(k.ride_revenue, k.subscription_revenue)
        /\ k.arpu = IF users = 0 THEN float(0)
                    ELSE float_truediv(k.total_revenue, float(users))
        /\ k.ltv = float_mul(k.arpu, forty)
        /\ k.cac = forty
        /\ k.roi = float_mul(float_truediv(float_sub(k.ltv, forty), forty), float(100))
        /\ k.ltv_cac_ratio = float_truediv(k.ltv, forty)

\* C18 witness: the KPIs of two members with 70-minute trips on classic
\* bikes in June 2024: 3.32 of rides and 18 of subscriptions over two users.
C18_Witness ==
  /\ last.op = "kpis"
  /\ last.raised = ""
  /\ metrics[1].ride_revenue = float_add(next_up(float_literal(166, 100)), next_up(float_literal(166, 100)))
  /\ metrics[1].subscription_revenue = float(18)
  /\ metrics[1].arpu = float_literal(1066, 100)

\* the rows of the dataset that start on 2024-06-15 at 08:00:00
StartsOnJune15At8(r) == r["started_at"] = Dt(0)

\* C20 as stated: after the time features are extracted, a trip that starts
\* on 2024-06-15 at 08:00:00 has season = 3, is_morning_peak = True, a
\* weekday numbered with Monday = 1, and is_weekend = False.
C20_June15IsNoWeekend ==
  (last.op = "extract" /\ last.raised = "") =>
    \A r \in Rows(data) :
      StartsOnJune15At8(r) =>
        /\ r["season"] = Int64(3)
        /\ r["is_morning_peak"] = Bool(TRUE)
        /\ r["weekday"].k = "int" /\ r["weekday"].n \in 1..7
        /\ r["is_weekend"] = Bool(FALSE)

\* C20, amended: after the time features are extracted, a trip that starts
\* on 2024-06-15 at 08:00:00, a Saturday, has season = 3, is_morning_peak =
\* True, weekday = 6 (Monday = 1) and is_weekend = True.
C20_June15IsASaturday ==
  (last.op = "extract" /\ last.raised = "") =>
    \A r \in Rows(data) :
      StartsOnJune15At8(r) =>
        /\ r["season"] = Int64(3)
        /\ r["is_morning_peak"] = Bool(TRUE)
        /\ r["weekday"] = Int64(6)
        /\ r["is_weekend"] = Bool(TRUE)

\* C20 witness: the features of a dataset with a trip that starts on
\* 2024-06-15 at 08:00:00 and a trip on a Thursday were extracted.
C20_Witness ==
  /\ last.op = "extract"
  /\ last.raised = ""
  /\ \E r \in Rows(data) : StartsOnJune15At8(r) /\ r["year"] = Int64(2024)
  /\ \E r \in Rows(data) : r["weekday"] = Int64(4) /\ r["is_weekend"] = Bool(FALSE)

\* C19: no call changes the state of a component: after any sequence of
\* validate, clean, extract-features, cost, revenue_metrics,
\* subscription_revenue and kpis calls the tariff table, the Chicago box,
\* the duration limits, the peak-hour windows and the holiday list are as
\* constructed; the fallback for a year outside the table adds no entry to
\* it and alters none, and a price is the price under the table as
\* constructed whatever was called before.
C19_ComponentStateIsNeverChanged ==
  /\ DOMAIN pricing_rules = 2020..2025
  /\ pricing_rules = load_pricing_rules
  /\ cleaner.chicago_bounds =
       [lat_min |-> 415, lat_max |-> 425, lng_min |-> -880, lng_max |-> -870]
  /\ cleaner.duration_limits = [min |-> 1, max |-> 1440]
  /\ extractor.morning_peak = << 7, 9 >>
  /\ extractor.evening_peak = << 16, 18 >>
  /\ extractor.holidays = TemporalFeatureExtractor_init.holidays
  /\ quote # << >> =>
       quote[1] = calculate_ride_cost(load_pricing_rules, call[1].duration_minutes,
                                      call[1].user_type, call[1].bike_type, call[1].year)

\* C19 witness: a dataset with a trip of 2026 was validated, cleaned, given
\* its features and its KPIs, and a trip of 2019 was priced: both years are
\* outside the table.
C19_Witness ==
  /\ last.op = "kpis"
  /\ last.raised = ""
  /\ runs >= 1
  /\ validation # << >>
  /\ quote # << >>
  /\ call[1].year = 2019
  /\ \E r \in Rows(data) : r["year"] = Int64(2026)

\* ------------------------------------------------- claims on the features
\* the calls that read the start column, and those that read the end column
\* because the duration features were asked for
StartReaders == {"extract", "duration_features", "create_all", "create_all_with_end"}
EndReaders == {"duration_features", "create_all_with_end"}

\* C21: feature extraction fails with the missing-column error (ValueError)
\* when the dataset has no start column, and also when the duration
\* features are asked for, an end column being named, and the dataset has
\* no such end column.  No call removes a column, so a column that data
\* lacks after the call was absent before it.
C21_MissingColumnFails ==
  /\ (last.op \in StartReaders /\ "started_at" \notin columns(data))
       => last.raised = "ValueError"
  /\ (last.op \in EndReaders /\ "ended_at" \notin columns(data))
       => last.raised = "ValueError"

\* the rows of df that have their time features and a start
TimedRows(df) ==
  IF {"started_at", "season", "is_peak_hour"} \subseteq columns(df)
  THEN { r \in Rows(df) : ~IsNull(r["started_at"]) }
  ELSE {}

\* a cell is the boolean b
Is(c, b) == c = Bool(b)

\* 2024-06-10 is a Monday: the weekday of a date, Monday = 1 .. Sunday = 7
MondayFirst(days) == ((days - days_from_civil(2024, 6, 10)) % 7) + 1

\* C22: for every start timestamp, season is 1 for the months 12, 1, 2, 2
\* for 3..5, 3 for 6..8 and 4 otherwise; is_weekend holds exactly when
\* weekday >= 6 with Monday = 1 .. Sunday = 7; is_morning_peak holds exactly
\* for the hours 7 and 8, is_evening_peak exactly for 16 and 17, never both,
\* and is_peak_hour is their disjunction.
C22_CalendarFlags ==
  \A r \in TimedRows(data) :
    /\ r["month"].n \in 1..12 /\ r["hour"].n \in Hours
    /\ r["season"] = Int64(CASE r["month"].n \in {12, 1, 2} -> 1
                             [] r["month"].n \in 3..5 -> 2
                             [] r["month"].n \in 6..8 -> 3
                             [] OTHER -> 4)
    /\ r["weekday"].n = MondayFirst(r["date"].n)
    /\ Is(r["is_weekend"], r["weekday"].n >= 6)
    /\ Is(r["is_morning_peak"], r["hour"].n \in {7, 8})
    /\ Is(r["is_evening_peak"], r["hour"].n \in {16, 17})
    /\ ~(Is(r["is_morning_peak"], TRUE) /\ Is(r["is_evening_peak"], TRUE))
    /\ Is(r["is_peak_hour"], Is(r["is_morning_peak"], TRUE)
                               \/ Is(r["is_evening_peak"], TRUE))

\* a trip of a Friday in June at 17:59:59 has its flags: evening peak, no
\* morning peak, no weekend, summer
C22_Witness ==
  /\ last.op = "extract"
  /\ \E r \in TimedRows(data) :
       /\ r["hour"] = Int64(17) /\ r["minute"] = Int64(59)
       /\ r["weekday"] = Int64(5) /\ r["season"] = Int64(3)
       /\ Is(r["is_evening_peak"], TRUE) /\ Is(r["is_peak_hour"], TRUE)
       /\ Is(r["is_morning_peak"], FALSE) /\ Is(r["is_weekend"], FALSE)

\* the years of the holiday table
HolidayYears == 2020..2025

\* New Year's Day, July 4, December 25, and the fourth Thursday of November:
\* the Thursday among November 22..28
IsTableHoliday(year, month, day) ==
  /\ year \in HolidayYears
  /\ \/ << month, day >> \in { <<1, 1>>, <<7, 4>>, <<12, 25>> }
     \/ /\ month = 11 /\ day \in 22..28
        /\ MondayFirst(days_from_civil(year, month, day)) = 4

\* C23: is_holiday holds exactly when the start date is one of the 24 dates
\* of the table, which are January 1, July 4, the fourth Thursday of
\* November and December 25 of each year 2020..2025; a date outside the
\* table, before 2020 and after 2025 included, is never flagged.
C23_HolidaysAreTheTable ==
  /\ Len(extractor.holidays) = 24
  /\ Cardinality({ extractor.holidays[i] : i \in 1..24 }) = 24
  /\ \A i \in 1..24 :
       LET d == extractor.holidays[i]
       IN  IsTableHoliday(d.year, d.month, d.day)
  /\ \A r \in TimedRows(data) :
       Is(r["is_holiday"],
          IsTableHoliday(r["year"].n, r["month"].n, r["day"].n))

\* Thanksgiving 2024, Thursday November 28, is flagged
C23_Witness ==
  /\ last.op = "extract"
  /\ \E r \in TimedRows(data) :
       /\ r["year"] = Int64(2024) /\ r["month"] = Int64(11)
       /\ r["day"] = Int64(28) /\ r["weekday"] = Int64(4)
       /\ Is(r["is_holiday"], TRUE)

\* the rows of df that have their duration features and a duration
LastingRows(df) ==
  IF {"duration_minutes", "duration_category", "is_short_trip",
      "is_medium_trip", "is_long_trip"} \subseteq columns(df)
  THEN { r \in Rows(df) : ~IsNull(r["duration_minutes"]) }
  ELSE {}

\* a duration cell c is above lo minutes and at most hi minutes
Within(c, lo, hi) ==
  lo * SecondsPerMinute < c.n /\ c.n <= hi * SecondsPerMinute

DurationCategories == {"very_short", "short", "medium", "long", "very_long"}

\* C24: duration_category is a total function of duration_minutes with
\* inclusive upper thresholds: very_short for d <= 5, short for 5 < d <= 15,
\* medium for 15 < d <= 45, long for 45 < d <= 120, very_long above; every
\* non-null duration has exactly one category and the values 5, 15, 45 and
\* 120 fall in the lower one.
C24_DurationCategory ==
  \A r \in LastingRows(data) :
    LET d == r["duration_minutes"]
        c == r["duration_category"]
    IN  /\ c.k = "str" /\ c.s \in DurationCategories
        /\ (c.s = "very_short") = (d.n <= 5 * SecondsPerMinute)
        /\ (c.s = "short") = Within(d, 5, 15)
        /\ (c.s = "medium") = Within(d, 15, 45)
        /\ (c.s = "long") = Within(d, 45, 120)
        /\ (c.s = "very_long") = (d.n > 120 * SecondsPerMinute)

\* a trip of exactly 45 minutes is medium
C24_Witness ==
  /\ last.op = "duration_features"
  /\ \E r \in LastingRows(data) :
       /\ r["duration_minutes"] = Flt(45 * SecondsPerMinute)
       /\ r["duration_category"] = Str("medium")

\* C25 as stated: for a trip of exactly 15 minutes both is_short_trip and
\* is_medium_trip are true, the flags overlap at the boundary.
C25_FlagsOverlapAtFifteen ==
  \A r \in LastingRows(data) :
    r["duration_minutes"] = Flt(15 * SecondsPerMinute)
      => Is(r["is_short_trip"], TRUE) /\ Is(r["is_medium_trip"], TRUE)

\* C25: for a trip of exactly 15 minutes is_short_trip is true and
\* is_medium_trip is false; is_short_trip is d <= 15, is_medium_trip is
\* 15 < d <= 45, is_long_trip is d > 45, and exactly one of the three flags
\* holds for every non-null duration.
C25_FlagsPartitionTheDurations ==
  \A r \in LastingRows(data) :
    LET d == r["duration_minutes"]
    IN  /\ Is(r["is_short_trip"], d.n <= 15 * SecondsPerMinute)
        /\ Is(r["is_medium_trip"], Within(d, 15, 45))
        /\ Is(r["is_long_trip"], d.n > 45 * SecondsPerMinute)
        /\ Cardinality({ f \in {"is_short_trip", "is_medium_trip", "is_long_trip"} :
                           Is(r[f], TRUE) }) = 1
        /\ d = Flt(15 * SecondsPerMinute)
             => Is(r["is_short_trip"], TRUE) /\ Is(r["is_medium_trip"], FALSE)

\* a trip of exactly 15 minutes has its flags
C25_Witness ==
  /\ last.op \in {"duration_features", "create_all_with_end"}
  /\ \E r \in LastingRows(data) :
       /\ r["duration_minutes"] = Flt(15 * SecondsPerMinute)
       /\ r["duration_seconds"] = Int64(900)
       /\ Is(r["is_short_trip"], TRUE)

\* the date and the value of every row
Series(df) == [i \in 1..height(df) |-> [date |-> df.rows[i]["date"],
                                        count |-> df.rows[i]["count"]]]

\* a series has been given its lags by a call that returned
Lagged == last = [op |-> "lag_features", raised |-> "", stage |-> ""]

\* C26: the dataset is first sorted by the date key; then, for every period
\* p of the list and every row i of the n sorted rows, lag_p[i] is the value
\* p rows before when there is such a row and null otherwise, lead_p[i] the
\* value p rows after when there is such a row and null otherwise; rolling
\* mean and std columns exist only for p > 1 and are null for the first
\* p - 1 rows (and are the mean and the deviation of the p values after
\* them); no period raises, p > n included.
C26_LagLeadRolling ==
  /\ (last.op = "lag_features" /\ {"date", "count"} \subseteq columns(data))
       => last.raised = ""
  /\ Lagged =>
       LET n == height(data)
           value == [i \in 1..n |-> data.rows[i]["count"]]
       IN  /\ BagOf(Series(data)) = BagOf(Series(prev))
           /\ \A i, j \in 1..n :
                (i < j /\ ~IsNull(data.rows[i]["date"]))
                  => /\ ~IsNull(data.rows[j]["date"])
                     /\ data.rows[i]["date"].n <= data.rows[j]["date"].n
           /\ \A p \in period_set(call[1].periods), i \in 1..n :
                /\ data.rows[i][lag_col("count", p)]
                     = IF i - p >= 1 THEN value[i - p] ELSE Null
                /\ data.rows[i][lead_col("count", p)]
                     = IF i + p <= n THEN value[i + p] ELSE Null
                /\ (ma_col("count", p) \in columns(data)) = (p > 1)
                /\ (std_col("count", p) \in columns(data)) = (p > 1)
                /\ p > 1 =>
                     /\ IsNull(data.rows[i][ma_col("count", p)]) = (i <= p - 1)
                     /\ IsNull(data.rows[i][std_col("count", p)]) = (i <= p - 1)
                     /\ i >= p =>
                          data.rows[i][ma_col("count", p)].n
                            = SumOver([k \in i - p + 1..i |-> value[k].n],
                                      i - p + 1..i)

\* three days with the default periods 1, 7, 30: the lag of one day is
\* there, the periods beyond the length of the series give nulls and there
\* is no rolling column for the period 1
C26_Witness ==
  /\ Lagged
  /\ call[1].periods = <<1, 7, 30>>
  /\ height(data) = 3
  /\ data.rows[1]["date"] # data.rows[3]["date"]
  /\ data.rows[2]["count_lag_1"] = data.rows[1]["count"]
  /\ data.rows[2]["count_lead_1"] = data.rows[3]["count"]
  /\ "count_ma_1" \notin columns(data)
  /\ \A i \in 1..3 : IsNull(data.rows[i]["count_lag_7"])
                       /\ IsNull(data.rows[i]["count_std_30"])

\* the rows of df that have the three interaction codes and a start
CodedRows(df) ==
  IF {"hour_weekday_interaction", "season_weekend_interaction",
      "month_hour_interaction"} \subseteq columns(df)
  THEN TimedRows(df)
  ELSE {}

\* C27: the interaction encodings are exact and collision-free: for every
\* hour, weekday, month, season and weekend flag, hour_weekday_interaction
\* = hour x 10 + weekday, season_weekend_interaction = season x 10 + (1 if
\* weekend else 0) and month_hour_interaction = month x 100 + hour, without
\* overflow in the integer width of the columns, so that two different
\* pairs never get the same code.
C27_InteractionCodesAreExact ==
  /\ \A r \in CodedRows(data) :
       /\ r["hour_weekday_interaction"].n = r["hour"].n * 10 + r["weekday"].n
       /\ r["season_weekend_interaction"].n
            = r["season"].n * 10 + r["is_weekend"].n
       /\ r["month_hour_interaction"].n = r["month"].n * 100 + r["hour"].n
  /\ \A r1, r2 \in CodedRows(data) :
       /\ r1["hour_weekday_interaction"] = r2["hour_weekday_interaction"]
            => r1["hour"] = r2["hour"] /\ r1["weekday"] = r2["weekday"]
       /\ r1["season_weekend_interaction"] = r2["season_weekend_interaction"]
            => r1["season"] = r2["season"] /\ r1["is_weekend"] = r2["is_weekend"]
       /\ r1["month_hour_interaction"] = r2["month_hour_interaction"]
            => r1["month"] = r2["month"] /\ r1["hour"] = r2["hour"]

\* --------------------------------------- claims on the forward pipeline
\* the dataset has been cleaned and then given all its features, the
\* duration features included
CleanedThenFeatured ==
  /\ runs >= 1
  /\ last = [op |-> "create_all_with_end", raised |-> "", stage |-> ""]
  /\ "duration_minutes" \in columns(data)

\* C28: after clean(df) followed by create_all_temporal_features, which
\* recomputes duration_minutes from the end and the start, every row has
\* 1 <= duration_minutes <= 1440, also when df came with a duration column
\* of its own.
C28_DurationSurvivesFeatures ==
  CleanedThenFeatured
    => \A r \in Rows(data) : OneMinuteToOneDay(r["duration_minutes"])

\* C29: the cleaner and the validator agree: for every dataset on which
\* clean completes, validate(clean(df)) returns a report with an empty
\* warnings list: no duplicate trip key, no row with end <= start and no
\* out-of-bounds coordinate in any latitude or longitude column.
C29_CleanLeavesNoWarning ==
  (runs >= 1 /\ last.op = "validate")
    => /\ last.raised = ""
       /\ Len(validation) = 1
       /\ validation[1].warnings = << >>

\* ------------------------------------------------- claims on the loaders
\* C30: the load_dataset and lazy_load_dataset context managers yield
\* exactly once per use: when reading the file fails an empty frame is
\* yielded in place of the data, and when the body of the with-block raises
\* an exception, that exception reaches the caller and is not caught by the
\* handlers of the loader, which would yield a second time.
C30_LoaderYieldsOnce ==
  /\ (loader.pc = "body" /\ loader.file # "readable")
       => loader.yields = << "empty" >>
  /\ (loader.pc = "done" /\ loader.yields # << >>)
       => /\ Len(loader.yields) = 1
          /\ loader.body # "returns" => loader.raised = loader.body

====
